---- MODULE Spec2Model ----
(***************************************************************************)
(* Session lifecycle (AuthService) and job orchestration (JobRunService)   *)
(* of the Kubeflow VS Code extension, modelled from src/extension.js.      *)
(*                                                                         *)
(* Every `await` of the source is a point where another asynchronous       *)
(* operation may run, so an operation is a chain of actions, one per       *)
(* stretch of code between two awaits.  Several operations run at once,    *)
(* one per element of Procs.                                               *)
(***************************************************************************)
EXTENDS Integers, Sequences, FiniteSets, TLC

(***************************************************************************)
(* Bounds of the model.                                                    *)
(***************************************************************************)
\* The clock advances at most MaxTicks times (each time by TickMs, below).
MaxTicks == 2

(***************************************************************************)
(* Constants of the program.                                               *)
(***************************************************************************)
\* 5 * 60 * 1000 in ensureValidSession and scheduleRefresh.
SAFETY_WINDOW_MS == 300000
\* Math.max(10000, ...) in scheduleRefresh.
MIN_DELAY_MS == 10000
\* payload.expires_in || 300
DEFAULT_EXPIRES_IN == 300

\* A step of the clock is as long as the safety window: a session of 600 s
\* is fresh when created and due for refresh one step later, a session of
\* 300 s is due for refresh at once and its timer of 10 s one step later.
TickMs == SAFETY_WINDOW_MS

\* JavaScript `undefined`: no session, no timer, an absent key, a missing field.
Undefined == "<undefined>"

\* One user-driven operation at a time runs beside the timer callback.
UserProcs == {"u1"}
TimerProc == "timer"
Procs == UserProcs \cup {TimerProc}

\* Fields of a 2xx token response of the identity provider.  The provider
\* issues new tokens with every grant: "a1"/"r1" to a password grant,
\* "a2"/"r2" to a refresh_token grant; refresh_token may be left out.
\* expires_in is in seconds, <<>> when the response has no such field.
PayloadExpiresIn == {<<>>, <<300>>, <<600>>}
LoginPayloads ==
  [access_token : {"a1"}, refresh_token : {Undefined, "r1"}, expires_in : PayloadExpiresIn]
RefreshPayloads ==
  [access_token : {"a2"}, refresh_token : {Undefined, "r2"}, expires_in : PayloadExpiresIn]

\* Status codes the cluster API answers with.
K8sStatuses == {200, 409, 500}
\* res.ok
IsOk(status) == status >= 200 /\ status <= 299

\* The JobOptions handed to submitRun.
NoOptions ==
  [name |-> <<>>, namespace |-> "", autoPVCforPip |-> FALSE,
   pip |-> <<>>, apt |-> <<>>, scriptPath |-> ""]
JobOptions ==
  [name : {<<"ptjob-1">>}, namespace : {"kubeflow-user"}, autoPVCforPip : BOOLEAN,
   pip : {<<>>}, apt : {<<>>}, scriptPath : {"/w/s.py"}]

VARIABLES
  now,           \* Date.now()
  ticks,         \* clock steps taken
  session,       \* AuthService.session
  timer,         \* AuthService.refreshTimer: the pending setTimeout, if any
  timeouts,      \* the timeouts of setTimeout that have neither fired nor been cleared
  store,         \* the SecretStorage behind AuthService.secrets
  procs,         \* procs[p]: the asynchronous operation p runs, see IdleProc
  lastManifest,  \* JobRunService.lastManifest
  forcedOut,     \* history: the timer callback signed out, no login since
  call           \* a function of the program applied on its own, see NoCall

authVars == <<session, timer, timeouts, store>>
vars ==
  <<now, ticks, session, timer, timeouts, store, procs, lastManifest, forcedOut, call>>

(***************************************************************************)
(* Conversions.                                                            *)
(***************************************************************************)
\* String(n) of an integer: its decimal digits, the first of them with the
\* sign of n.
RECURSIVE NumberToString(_)
NumberToString(n) ==
  IF n < 10 THEN <<n>> ELSE NumberToString(n \div 10) \o <<n % 10>>

\* Number(s) of a string of decimal digits.
RECURSIVE StringToNumber(_)
StringToNumber(s) ==
  IF Len(s) = 0 THEN 0
  ELSE 10 * StringToNumber(SubSeq(s, 1, Len(s) - 1)) + s[Len(s)]

\* String(v): String(undefined) is the text "undefined".
StringOf(v) == IF v = Undefined THEN "undefined" ELSE v

\* JavaScript truthiness of a string-or-undefined value.
Truthy(v) == v # Undefined /\ v # ""

Max(a, b) == IF a >= b THEN a ELSE b

(***************************************************************************)
(* State of the session manager.                                           *)
(***************************************************************************)
\* The pending timeout, the time it is due (Date.now() + delayMs) and the
\* identity of what setTimeout returned.
NoTimer == [pending |-> FALSE, due |-> 0, id |-> 0]

\* this.session = undefined
NoSession == [exists |-> FALSE, accessToken |-> "", refreshToken |-> Undefined, expiresAt |-> 0]
\* this.session = { accessToken, refreshToken, expiresAt }
MkSession(a, r, e) == [exists |-> TRUE, accessToken |-> a, refreshToken |-> r, expiresAt |-> e]

\* The secret store maps the keys it holds to their text.
ACCESS_TOKEN_KEY == "kflow.accessToken"
REFRESH_TOKEN_KEY == "kflow.refreshToken"
EXPIRES_AT_KEY == "kflow.expiresAt"
EmptyStore == [k \in {} |-> ""]
\* secrets.store(k, v)
StorePut(st, k, v) == [x \in DOMAIN st \cup {k} |-> IF x = k THEN v ELSE st[x]]
\* secrets.get(k) is truthy, for a key holding a token (a string)
StoreHas(st, k) == k \in DOMAIN st /\ st[k] # ""
\* secrets.get(EXPIRES_AT_KEY) is truthy (the key holds a string of digits)
StoreHasExpiry(st) == EXPIRES_AT_KEY \in DOMAIN st /\ Len(st[EXPIRES_AT_KEY]) > 0

(***************************************************************************)
(* State of an asynchronous operation.                                     *)
(*   pc     where it stands: "idle", or the await it is suspended at       *)
(*   op     "login", "signOut", "list", "submitRun" or "timer"             *)
(*   stage  the cluster request it is at: "list", "cm", "pvc", "job"       *)
(*   opts   the JobOptions of submitRun                                    *)
(*   manifest  the manifest built by submitRun (its local `manifest`)      *)
(*   lsess  the `session` argument of its setSession call                  *)
(*   res    how its last operation ended                                   *)
(*   grant  the refresh_token in the body of the refresh_token grant it    *)
(*          waits for                                                      *)
(*   bearer the token in the Authorization header of the request to the    *)
(*          cluster it waits for, "" when it waits for none                *)
(*   log    history: its steps on disk and its exchanges with the cluster  *)
(*          since it began, in order                                       *)
(*   prompt the input box or quick pick it has open, "none" if none        *)
(*   items  the pods listed for streamJobLogs (its local `items`)           *)
(*   picked the local `pickedPod` of streamJobLogs                          *)
(*   before history: the session, the timer, the timeouts and the store    *)
(*          as loginInteractive found them, <<>> for other operations      *)
(***************************************************************************)
\* this.lastManifest = undefined
NoManifest == [kind |-> "none"]

\* pickedPod of streamJobLogs is an item of the quick pick, which has a
\* label, or a pod of the list, which has a metadata.name.
NoPick == [label |-> Undefined, name |-> Undefined]

IdleProc ==
  [pc |-> "idle", op |-> "none", stage |-> "none", opts |-> NoOptions,
   manifest |-> NoManifest, lsess |-> NoSession, res |-> "none", bearer |-> "",
   grant |-> Undefined, log |-> <<>>, prompt |-> "none", items |-> <<>>,
   picked |-> NoPick, before |-> <<>>]

\* The operation of q has ended with outcome r.
Done(q, r) == [IdleProc EXCEPT !.op = q.op, !.res = r]

\* Entries of the log.
Event(ev, kind, status, name, ref) ==
  [ev |-> ev, kind |-> kind, status |-> status, name |-> name, ref |-> ref]
LocalStep(kind) == Event("local", kind, 0, <<>>, <<>>)
Response(kind, status) == Event("resp", kind, status, <<>>, <<>>)
\* The request of stage `kind` threw: status is that of the response, 0 when
\* it threw before anything was sent to the cluster.
Threw(kind, status) == Event("threw", kind, status, <<>>, <<>>)

(***************************************************************************)
(* ManifestBuilder.  A resource name is a sequence of text pieces, so that *)
(* `${name}-artifact` is name \o <<"-artifact">>.                          *)
(***************************************************************************)
\* cmName in submitRun
ArtifactName(name) == name \o <<"-artifact">>

PIP_CACHE_PVC == <<"pip-cache-pvc">>

BuildPVC(name, namespace) ==
  [kind |-> "PersistentVolumeClaim", name |-> name, namespace |-> namespace]

BuildArtifactConfigMap(namespace, name) ==
  [kind |-> "ConfigMap", name |-> name, namespace |-> namespace]

\* xs.join(sep)
RECURSIVE Join(_, _)
Join(xs, sep) ==
  IF Len(xs) = 0 THEN ""
  ELSE IF Len(xs) = 1 THEN xs[1]
  ELSE xs[1] \o sep \o Join(Tail(xs), sep)

\* Mutant: the pip install comes before the apt install.
StartupCommand_PipFirst(options) ==
  LET aptInstall == IF Len(options.apt) # 0
                    THEN "apt-get update && apt-get install -y " \o
                         Join(options.apt, " ") \o " && "
                    ELSE ""
      pipInstall == IF Len(options.pip) # 0
                    THEN "pip install " \o Join(options.pip, " ") \o " && "
                    ELSE ""
  IN pipInstall \o aptInstall \o "python " \o options.scriptPath

\* buildPyTorchJob: cmd
StartupCommand(options) ==
  LET aptInstall == IF Len(options.apt) # 0
                    THEN "apt-get update && apt-get install -y " \o
                         Join(options.apt, " ") \o " && "
                    ELSE ""
      pipInstall == IF Len(options.pip) # 0
                    THEN "pip install " \o Join(options.pip, " ") \o " && "
                    ELSE ""
  IN aptInstall \o pipInstall \o "python " \o options.scriptPath

\* Mutant: the pip-cache volume claims a PVC of another name.
BuildPyTorchJob_OtherClaim(options, artifactConfigMapName) ==
  [kind |-> "PyTorchJob",
   name |-> options.name,
   namespace |-> options.namespace,
   meta |-> {"labels"},
   command |-> <<"/bin/sh", "-c", StartupCommand(options)>>,
   volumeMounts |->
     <<[name |-> "job-code", mountPath |-> "/workspace"]>> \o
     (IF options.autoPVCforPip
      THEN <<[name |-> "pip-cache", mountPath |-> "/root/.cache/pip"]>> ELSE <<>>),
   volumes |->
     <<[name |-> "job-code", source |-> "configMap", ref |-> artifactConfigMapName]>> \o
     (IF options.autoPVCforPip
      THEN <<[name |-> "pip-cache", source |-> "persistentVolumeClaim",
              ref |-> <<"pip-cache">>]>>
      ELSE <<>>)]

\* The fields of metadata besides name and namespace are kept as the set
\* `meta` of their names; buildPyTorchJob sets labels only.  A volume is
\* kept as its name, the kind of its source (configMap or
\* persistentVolumeClaim) and the name of that source.
BuildPyTorchJob(options, artifactConfigMapName) ==
  [kind |-> "PyTorchJob",
   name |-> options.name,
   namespace |-> options.namespace,
   meta |-> {"labels"},
   command |-> <<"/bin/sh", "-c", StartupCommand(options)>>,
   volumeMounts |->
     <<[name |-> "job-code", mountPath |-> "/workspace"]>> \o
     (IF options.autoPVCforPip
      THEN <<[name |-> "pip-cache", mountPath |-> "/root/.cache/pip"]>> ELSE <<>>),
   volumes |->
     <<[name |-> "job-code", source |-> "configMap", ref |-> artifactConfigMapName]>> \o
     (IF options.autoPVCforPip
      THEN <<[name |-> "pip-cache", source |-> "persistentVolumeClaim",
              ref |-> <<"pip-cache-pvc">>]>>
      ELSE <<>>)]

(***************************************************************************)
(* restartLastRun: the manifest it submits.                                *)
(***************************************************************************)
\* Date.now() when the extension host starts.  `now` counts from there: the
\* session arithmetic depends on differences of times only, the name of a
\* restarted job on the last digits of Date.now().
EpochMs == 1000001234
DateNow == EpochMs + now

DigitChar(d) == <<"0", "1", "2", "3", "4", "5", "6", "7", "8", "9">>[d + 1]

\* s.slice(-4) of a string of digits, as text pieces.
LastFour(digits) ==
  LET k == IF Len(digits) > 4 THEN Len(digits) - 3 ELSE 1 IN
  [i \in 1..(Len(digits) - k + 1) |-> DigitChar(digits[k + i - 1])]

\* Mutant: restartLastRun leaves uid in the metadata.
RESTART_STRIPPED_NoUid == {"resourceVersion", "creationTimestamp"}

\* The metadata restartLastRun deletes.
RESTART_STRIPPED == {"resourceVersion", "uid", "creationTimestamp"}

\* manifest?.metadata?.name || 'ptjob'
OldName(manifest) == IF manifest.name = <<>> THEN <<"ptjob">> ELSE manifest.name

\* The clone of the cached manifest that restartLastRun renames and strips.
RestartManifest(cached) ==
  [cached EXCEPT
     !.name = OldName(cached) \o <<"-restart-">> \o LastFour(NumberToString(DateNow)),
     !.meta = @ \ RESTART_STRIPPED]

\* Mutant: restartLastRun returns without an error when nothing is cached.
RestartRefused_Silently(q) == Done(q, "ok")

\* if (!this.lastManifest) throw new Error('No previous manifest available...')
RestartRefused(q) == Done(q, "noManifest")

(***************************************************************************)
(* AuthService                                                             *)
(***************************************************************************)
\* Mutant: a token response without expires_in is taken to last an hour.
ExpiresAtOf_LongDefault(payload) ==
  now + (IF payload.expires_in = <<>> \/ payload.expires_in = <<0>>
         THEN 3600 ELSE payload.expires_in[1]) * 1000

\* expiresAt: Date.now() + Number(payload.expires_in || 300) * 1000
ExpiresAtOf(payload) ==
  now + (IF payload.expires_in = <<>> \/ payload.expires_in = <<0>>
         THEN DEFAULT_EXPIRES_IN ELSE payload.expires_in[1]) * 1000

\* Mutant: the delay has no floor of 10 s.
RefreshDelay_NoFloor(s) == s.expiresAt - now - SAFETY_WINDOW_MS

\* The delay scheduleRefresh hands to setTimeout.
RefreshDelay(s) == Max(MIN_DELAY_MS, s.expiresAt - now - SAFETY_WINDOW_MS)

\* if (this.refreshTimer) clearTimeout(this.refreshTimer): the timeouts left
\* of ts.  Clearing a timeout that has fired or was cleared does nothing.
ClearTimeout(ts) == IF timer.pending THEN {x \in ts : x.id # timer.id} ELSE ts

\* What setTimeout returns, ts being the timeouts pending: a new identity.
SetTimeout(ts, due) ==
  [pending |-> TRUE, due |-> due,
   id |-> CHOOSE i \in 1..(Cardinality(ts) + 1) :
            /\ \A x \in ts : x.id # i
            /\ \A j \in 1..(i - 1) : \E x \in ts : x.id = j]

\* scheduleRefresh() without the safety window: the timer is armed for the
\* expiry itself.
ScheduleRefresh_AtExpiry(s) ==
  IF ~s.exists THEN timer
  ELSE SetTimeout(ClearTimeout(timeouts), Max(now + MIN_DELAY_MS, s.expiresAt))

\* scheduleRefresh(), given the value this.session has when it runs.
ScheduleRefresh(s) ==
  IF ~s.exists THEN timer
  ELSE SetTimeout(ClearTimeout(timeouts), now + RefreshDelay(s))

\* Mutant: scheduleRefresh() arms a timeout without clearing the one armed.
Scheduled_NoClear(s) ==
  IF ~s.exists THEN timeouts
  ELSE timeouts \cup {SetTimeout(ClearTimeout(timeouts), now + RefreshDelay(s))}

\* The timeouts pending after scheduleRefresh().
Scheduled(s) ==
  IF ~s.exists THEN timeouts
  ELSE ClearTimeout(timeouts) \cup {ScheduleRefresh(s)}

\* Mutant: the safety window taken twice.
SessionFresh_DoubleWindow(s) == now + 2 * SAFETY_WINDOW_MS < s.expiresAt

\* The condition under which ensureValidSession returns at once.
SessionFresh(s) == now + SAFETY_WINDOW_MS < s.expiresAt

\* Mutant: ensureValidSession does not check that a session exists.
EnsureValidSession_NoLoginCheck ==
  IF SessionFresh(session) THEN "ok"
  ELSE IF ~Truthy(session.refreshToken) THEN "noRefreshToken"
  ELSE "refresh"

\* ensureValidSession() up to its return, its throw, or the fetch of
\* refreshSession(): "ok", the error thrown, or "refresh".
EnsureValidSession ==
  IF ~session.exists THEN "notLoggedIn"
  ELSE IF SessionFresh(session) THEN "ok"
  ELSE IF ~Truthy(session.refreshToken) THEN "noRefreshToken"
  ELSE "refresh"

\* Mutant: initialize() restores nothing unless a refresh token is stored too.
RestoredSession_NeedsRefreshToken ==
  IF ~StoreHas(store, ACCESS_TOKEN_KEY) \/ ~StoreHas(store, REFRESH_TOKEN_KEY)
  THEN NoSession
  ELSE MkSession(store[ACCESS_TOKEN_KEY], store[REFRESH_TOKEN_KEY],
                 IF StoreHasExpiry(store)
                 THEN StringToNumber(store[EXPIRES_AT_KEY]) ELSE now)

\* initialize(): the session restored from the secret store.
RestoredSession ==
  IF ~StoreHas(store, ACCESS_TOKEN_KEY) THEN NoSession
  ELSE MkSession(store[ACCESS_TOKEN_KEY],
                 IF StoreHas(store, REFRESH_TOKEN_KEY)
                 THEN store[REFRESH_TOKEN_KEY] ELSE Undefined,
                 IF StoreHasExpiry(store)
                 THEN StringToNumber(store[EXPIRES_AT_KEY]) ELSE now)

\* getAccessToken()
GetAccessToken == IF session.exists THEN session.accessToken ELSE Undefined

(***************************************************************************)
(* K8sApiClient.request and the control flow of JobRunService around it.   *)
(* The code between two awaits runs without interruption, so what follows  *)
(* a settled await is computed as one step: the operators below return the *)
(* state [proc, lm] of the operation and of lastManifest at its next await *)
(* or at its end.                                                          *)
(***************************************************************************)
\* The body a request of stage stg carries.
RequestBody(q, stg) ==
  CASE stg = "cm" -> BuildArtifactConfigMap(q.opts.namespace, ArtifactName(q.opts.name))
    [] stg = "pvc" -> BuildPVC(PIP_CACHE_PVC, q.opts.namespace)
    [] stg = "job" -> q.manifest
    [] OTHER -> NoManifest

\* streamJobLogs: pickedPod.label ? pickedPod.label : pickedPod.metadata?.name
PodName(picked) == IF Truthy(picked.label) THEN picked.label ELSE picked.name

\* items.find((p) => p.metadata?.name === podName)?.spec?.containers?.[0]?.name
ContainerName(items, podName) ==
  LET found == {i \in 1..Len(items) : items[i].name = podName} IN
  IF found = {} THEN Undefined
  ELSE LET pod == items[CHOOSE i \in found : \A j \in found : i <= j] IN
       IF pod.containers = <<>> THEN Undefined ELSE pod.containers[1]

\* getPodLogs: the query string of the log request.
LogQuery(containerName) ==
  <<"follow=false", "tailLines=200">> \o
  (IF Truthy(containerName) THEN <<"container=" \o containerName>> ELSE <<>>)

\* The log entry of a request to the cluster: its stage, the name of the
\* resource sent or read, and the ConfigMap a job mounts or the query of a
\* log request.
K8sRequest(q, stg) ==
  Event("req", stg, 0,
        CASE stg \in {"list", "pods"} -> <<>>
          [] stg = "logs" -> <<PodName(q.picked)>>
          [] OTHER -> RequestBody(q, stg).name,
        CASE stg = "job" -> RequestBody(q, stg).volumes[1].ref
          [] stg = "logs" -> LogQuery(ContainerName(q.items, PodName(q.picked)))
          [] OTHER -> <<>>)

\* Mutant: no request of submitRun is wrapped in try { } catch { }.
Swallowed_Nothing(operation, stg) == FALSE

\* Mutant: every request of submitRun is wrapped in try { } catch { }.
Swallowed_Everything(operation, stg) == operation = "submitRun"

\* submitRun wraps only the PVC create in try { } catch { }, and the catch
\* is empty: whatever that request throws is dropped.
Swallowed(operation, stg) == operation = "submitRun" /\ stg = "pvc"

\* request() after `await ensureValidSession()`: the fetch is sent, with
\* `Bearer ${getAccessToken()}`.
Send(q, stg, lm) ==
  [proc |-> [q EXCEPT !.pc = "k8sWait", !.stage = stg, !.lsess = NoSession,
                      !.bearer = GetAccessToken,
                      !.log = Append(@, K8sRequest(q, stg))],
   lm |-> lm]

RECURSIVE Enter(_, _, _)
RECURSIVE After(_, _, _)

\* Mutant: restartLastRun caches its manifest before the create request.
Throw_CachesManifest(q, stg, lm, err, status) ==
  IF Swallowed(q.op, stg)
  THEN After([q EXCEPT !.log = Append(@, Threw(stg, status))], stg, lm)
  ELSE [proc |-> Done(q, err), lm |-> IF q.op = "restart" THEN q.manifest ELSE lm]

\* The request of stage stg has thrown err (status: see Threw).
Throw(q, stg, lm, err, status) ==
  IF Swallowed(q.op, stg)
  THEN After([q EXCEPT !.log = Append(@, Threw(stg, status))], stg, lm)
  ELSE [proc |-> Done(q, err), lm |-> lm]

\* request() is called for stage stg: ensureValidSession() runs first.
Enter(q, stg, lm) ==
  CASE EnsureValidSession = "ok" -> Send(q, stg, lm)
    [] EnsureValidSession = "refresh" ->
         [proc |-> [q EXCEPT !.pc = "refreshWait", !.stage = stg,
                             !.grant = session.refreshToken],
          lm |-> lm]
    [] OTHER -> Throw([q EXCEPT !.stage = stg], stg, lm, EnsureValidSession, 0)

\* Mutant: restartLastRun does not cache the manifest it has submitted.
After_RestartNotCached(q, stg, lm) ==
  LET manifest == BuildPyTorchJob(q.opts, ArtifactName(q.opts.name)) IN
  IF q.op = "submitRun" /\ stg = "cm" /\ q.opts.autoPVCforPip
  THEN Enter(q, "pvc", lm)
  ELSE IF q.op = "submitRun" /\ stg \in {"cm", "pvc"}
  THEN Enter([q EXCEPT !.manifest = manifest], "job", manifest)
  ELSE [proc |-> Done(q, "ok"), lm |-> lm]

\* What the operation does once the request of stage stg is behind it.
\* submitRun: ConfigMap, then the PVC if autoPVCforPip, then the manifest is
\* built, cached in lastManifest, and submitted.
\* restartLastRun: the manifest that was submitted is cached.
After(q, stg, lm) ==
  LET manifest == BuildPyTorchJob(q.opts, ArtifactName(q.opts.name)) IN
  IF q.op = "submitRun" /\ stg = "cm" /\ q.opts.autoPVCforPip
  THEN Enter(q, "pvc", lm)
  ELSE IF q.op = "submitRun" /\ stg \in {"cm", "pvc"}
  THEN Enter([q EXCEPT !.manifest = manifest], "job", manifest)
  ELSE IF q.op = "restart"
  THEN [proc |-> Done(q, "ok"), lm |-> q.manifest]
  ELSE [proc |-> Done(q, "ok"), lm |-> lm]

(***************************************************************************)
(* Functions of the program that are applied on their own, in SpecPure:    *)
(* `call` holds the function, its arguments and, once applied, its result. *)
(***************************************************************************)
NoCall == [fn |-> "none", done |-> FALSE]

\* The bodies of responses.  A JSON text parses to the document it writes
\* down: `{}` to the empty object, which is also what `{}` in the code is.
JsonTexts == {"{}", "{\"items\":[]}", "{\"kind\":\"PyTorchJob\"}"}
LogTexts == {"", "epoch 1", "Traceback\nError: x"}
ErrorTexts == {"", "Unauthorized", "{\"kind\":\"Status\"}"}

\* await res.json(): the parsed document, or a SyntaxError.
ParseJson(text) ==
  IF text \in JsonTexts \cup {"{\"kind\":\"Status\"}"}
  THEN [threw |-> FALSE, value |-> <<"json", text>>, status |-> 0, body |-> ""]
  ELSE [threw |-> TRUE, value |-> <<"SyntaxError">>, status |-> 0, body |-> ""]

\* The object literal {}.
EmptyObject == <<"json", "{}">>

\* Mutant: the pod-log path parses its body like every other request.
HandleResponse_AlwaysJson(raw, status, body) ==
  IF ~IsOk(status)
  THEN [threw |-> TRUE, value |-> <<"Kubernetes API error">>, status |-> status, body |-> body]
  ELSE IF status = 204
  THEN [threw |-> FALSE, value |-> EmptyObject, status |-> 0, body |-> ""]
  ELSE ParseJson(body)

\* request() (raw = FALSE) and requestRaw() (raw = TRUE) after the fetch: the
\* value returned, or the Error thrown, whose message holds status and body.
HandleResponse(raw, status, body) ==
  IF ~IsOk(status)
  THEN [threw |-> TRUE, value |-> <<"Kubernetes API error">>, status |-> status, body |-> body]
  ELSE IF raw
  THEN [threw |-> FALSE, value |-> <<"text", body>>, status |-> 0, body |-> ""]
  ELSE IF status = 204
  THEN [threw |-> FALSE, value |-> EmptyObject, status |-> 0, body |-> ""]
  ELSE ParseJson(body)

\* The responses of a cluster: a 204 has no body, the pod-log path answers
\* with text, every other path with JSON; an error has any body.
ResponseStatuses == {200, 201, 204, 400, 401, 403, 404, 409, 500, 503}
ResponseBodies(raw, status) ==
  IF ~IsOk(status) THEN ErrorTexts
  ELSE IF status = 204 THEN {""}
  ELSE IF raw THEN LogTexts
  ELSE JsonTexts

ResponseCalls ==
  {[fn |-> "response", done |-> FALSE, raw |-> c[1], status |-> c[2], body |-> c[3]] :
     c \in {x \in BOOLEAN \X ResponseStatuses \X (JsonTexts \cup LogTexts \cup ErrorTexts) :
              x[3] \in ResponseBodies(x[1], x[2])}}

(***************************************************************************)
(* AuthService.resolveTokenEndpoint.  The text of a setting is a sequence  *)
(* of pieces: a blank " ", a scheme with its "//", one slash "/", or text  *)
(* that neither begins nor ends with a blank or a slash.                   *)
(***************************************************************************)
Blank == " "
\* What /^https?:\/\//i matches at the start of a text.
SchemePieces == {"http://", "https://", "HTTPS://"}

\* s.trim()
RECURSIVE TrimStart(_)
TrimStart(s) == IF s # <<>> /\ Head(s) = Blank THEN TrimStart(Tail(s)) ELSE s
RECURSIVE TrimEnd(_)
TrimEnd(s) ==
  IF s # <<>> /\ s[Len(s)] = Blank THEN TrimEnd(SubSeq(s, 1, Len(s) - 1)) ELSE s
Trim(s) == TrimEnd(TrimStart(s))

\* /^https?:\/\//i.test(s)
IsAbsoluteUrl(s) == s # <<>> /\ s[1] \in SchemePieces

\* s.replace(/\/$/, ''): one slash at the end is removed.
StripSlash(s) ==
  IF s # <<>> /\ s[Len(s)] = "/" THEN SubSeq(s, 1, Len(s) - 1) ELSE s

TOKEN_PATH == <<"/protocol/openid-connect/token">>

Returned(v) == [threw |-> FALSE, value |-> v]
Thrown(message) == [threw |-> TRUE, value |-> <<message>>]

\* Mutant: a realm that is a URL is looked at before the override.
ResolveTokenEndpoint_RealmFirst(url, realm, tokenUrl) ==
  IF IsAbsoluteUrl(Trim(realm))
  THEN Returned(StripSlash(Trim(realm)) \o TOKEN_PATH)
  ELSE IF tokenUrl # <<>>
  THEN IF ~IsAbsoluteUrl(Trim(tokenUrl))
       THEN Thrown("Invalid kflow.keycloak.tokenUrl")
       ELSE Returned(StripSlash(Trim(tokenUrl)))
  ELSE Returned(StripSlash(url) \o <<"/realms/">> \o
                (IF Trim(realm) = <<>> THEN <<"kubeflow">> ELSE Trim(realm)) \o TOKEN_PATH)

\* Mutant: every slash at the end of the override is removed (/\/+$/).
RECURSIVE StripSlashes(_)
StripSlashes(s) == IF StripSlash(s) = s THEN s ELSE StripSlashes(StripSlash(s))
ResolveTokenEndpoint_EverySlash(url, realm, tokenUrl) ==
  IF tokenUrl # <<>>
  THEN IF ~IsAbsoluteUrl(Trim(tokenUrl))
       THEN Thrown("Invalid kflow.keycloak.tokenUrl")
       ELSE Returned(StripSlashes(Trim(tokenUrl)))
  ELSE IF IsAbsoluteUrl(Trim(realm))
  THEN Returned(StripSlash(Trim(realm)) \o TOKEN_PATH)
  ELSE Returned(StripSlash(url) \o <<"/realms/">> \o
                (IF Trim(realm) = <<>> THEN <<"kubeflow">> ELSE Trim(realm)) \o TOKEN_PATH)

\* resolveTokenEndpoint(url, realm), tokenUrl being getSettings().tokenUrl:
\* the endpoint returned, or the Error thrown.
ResolveTokenEndpoint(url, realm, tokenUrl) ==
  IF tokenUrl # <<>>
  THEN IF ~IsAbsoluteUrl(Trim(tokenUrl))
       THEN Thrown("Invalid kflow.keycloak.tokenUrl")
       ELSE Returned(StripSlash(Trim(tokenUrl)))
  ELSE LET realmValue == Trim(realm) IN
       IF IsAbsoluteUrl(realmValue)
       THEN Returned(StripSlash(realmValue) \o TOKEN_PATH)
       ELSE Returned(StripSlash(url) \o <<"/realms/">> \o
                     (IF realmValue = <<>> THEN <<"kubeflow">> ELSE realmValue) \o
                     TOKEN_PATH)

\* loginInteractive and refreshSession after resolveTokenEndpoint: the token
\* requests that go out, none when it threw.
TokenRequests(endpoint) == IF endpoint.threw THEN <<>> ELSE <<endpoint.value>>

\* The settings: kflow.keycloak.tokenUrl, kflow.keycloak.realm and the
\* Kubeflow URL (kflow.url, or what the user typed at the login prompt).
TokenUrls ==
  {<<>>,
   <<"https://", "kc.example.com/token">>,
   <<"http://", "kc.example.com/token">>,
   <<"HTTPS://", "kc.example.com/token">>,
   <<"https://", "kc.example.com/token", "/">>,
   <<"https://", "kc.example.com/token", "/", "/">>,
   <<Blank, "https://", "kc.example.com/token", Blank>>,
   <<"https://", "kc.example.com/token", "/", Blank>>,
   <<"kc.example.com/token">>,
   <<"ftp://kc.example.com/token">>,
   <<Blank>>}
Realms ==
  {<<>>, <<"ml">>, <<Blank, "ml", Blank>>,
   <<"https://", "kc.example.com/realms/ml">>,
   <<"https://", "kc.example.com/realms/ml", "/">>}
KubeflowUrls ==
  {<<>>, <<"https://", "kf.example.com">>, <<"https://", "kf.example.com", "/">>}

EndpointCalls ==
  [fn : {"endpoint"}, done : {FALSE}, url : KubeflowUrls, realm : Realms,
   tokenUrl : TokenUrls]

(***************************************************************************)
(* streamJobLogs: what it writes to the output channel.  Texts are         *)
(* strings, "\n" is the line feed.                                          *)
(***************************************************************************)
\* A log has at most MaxLogLines lines.
MaxLogLines == 2

\* s.includes(pat)
Includes(s, pat) ==
  \E i \in 1..(Len(s) - Len(pat) + 1) : SubSeq(s, i, i + Len(pat) - 1) = pat

\* s.split('\n')
RECURSIVE Split(_)
Split(s) ==
  LET feeds == {i \in 1..Len(s) : SubSeq(s, i, i) = "\n"} IN
  IF feeds = {} THEN <<s>>
  ELSE LET i == CHOOSE k \in feeds : \A j \in feeds : k <= j IN
       <<SubSeq(s, 1, i - 1)>> \o Split(SubSeq(s, i + 1, Len(s)))

\* Mutant: WARN is looked for before ERROR and Traceback.
ColorizeLogLine_WarnFirst(line) ==
  IF Includes(line, "WARN") THEN "[WARN] " \o line
  ELSE IF Includes(line, "ERROR") \/ Includes(line, "Traceback") THEN "[ERROR] " \o line
  ELSE line

\* colorizeLogLine(line)
ColorizeLogLine(line) ==
  IF Includes(line, "ERROR") \/ Includes(line, "Traceback") THEN "[ERROR] " \o line
  ELSE IF Includes(line, "WARN") THEN "[WARN] " \o line
  ELSE line

\* The lines streamJobLogs appends to the output channel it has cleared:
\* the header, then colorizeLogLine of every line of the text fetched.
AppendedLines(jobName, podName, logs) ==
  <<"[Kubeflow] Logs for job=" \o jobName \o ", pod=" \o podName>> \o
  [i \in 1..Len(Split(logs)) |-> ColorizeLogLine(Split(logs)[i])]

\* The lines a container writes, and the text the cluster returns for them.
LogLines ==
  {"", "epoch 1 loss 0.3", "ERROR: CUDA out of memory",
   "Traceback (most recent call last):", "WARN: slow dataloader",
   "WARNING: deprecated, ERROR ignored", "error: lowercase warn"}

LogCalls ==
  {[fn |-> "logs", done |-> FALSE, lines |-> ls, logs |-> Join(ls, "\n")] :
     ls \in UNION {[1..n -> LogLines] : n \in 1..MaxLogLines}}

(***************************************************************************)
(* buildPyTorchJob applied to options of every dependency list.            *)
(***************************************************************************)
\* A dependency list has at most MaxDeps packages.
MaxDeps == 2
Deps == {"a", "b", "libgdal-dev"}
DepLists == UNION {[1..n -> Deps] : n \in 0..MaxDeps}

CommandCalls ==
  {[fn |-> "command", done |-> FALSE,
    options |-> [o EXCEPT !.pip = pip, !.apt = apt]] :
     o \in {x \in JobOptions : ~x.autoPVCforPip}, pip \in DepLists, apt \in DepLists}

(***************************************************************************)
(* runFromTemplate: the options it builds from a template.  A value read   *)
(* from the templates file is kept with its JavaScript type: t is one of   *)
(* "undefined" (the field is absent), "number", "nan", "string", "boolean" *)
(* and "array".                                                            *)
(***************************************************************************)
JsValue(t, n, s, b, a) == [t |-> t, n |-> n, s |-> s, b |-> b, a |-> a]
Absent == JsValue("undefined", 0, "", FALSE, <<>>)
NaN == JsValue("nan", 0, "", FALSE, <<>>)
Num(n) == JsValue("number", n, "", FALSE, <<>>)
Str(s) == JsValue("string", 0, s, FALSE, <<>>)
Bool(b) == JsValue("boolean", 0, "", b, <<>>)
Arr(a) == JsValue("array", 0, "", FALSE, a)

\* JavaScript truthiness of a value.
JsTruthy(v) ==
  CASE v.t = "number" -> v.n # 0
    [] v.t = "string" -> v.s # ""
    [] v.t = "boolean" -> v.b
    [] v.t = "array" -> TRUE
    [] OTHER -> FALSE

\* a || b
Or(a, b) == IF JsTruthy(a) THEN a ELSE b

Digits == <<"0", "1", "2", "3", "4", "5", "6", "7", "8", "9">>
DigitOf(c) == {d \in 1..10 : Digits[d] = c}

\* The number a text of decimal digits reads as, -1 if it is no such text.
RECURSIVE ParseDigits(_)
ParseDigits(s) ==
  IF Len(s) = 0 THEN -1
  ELSE LET last == DigitOf(SubSeq(s, Len(s), Len(s)))
           init == IF Len(s) = 1 THEN 0 ELSE ParseDigits(SubSeq(s, 1, Len(s) - 1))
       IN IF last = {} \/ init = -1 THEN -1
          ELSE init * 10 + (CHOOSE d \in last : TRUE) - 1

\* The decimal text of a natural number.
RECURSIVE Decimal(_)
Decimal(n) ==
  IF n < 10 THEN Digits[n + 1] ELSE Decimal(n \div 10) \o Digits[(n % 10) + 1]

\* Number(v), for the values a template holds here: texts are the empty
\* text, texts of decimal digits, or texts that are no number.
ToNumber(v) ==
  CASE v.t = "number" -> v
    [] v.t = "boolean" -> Num(IF v.b THEN 1 ELSE 0)
    [] v.t = "string" ->
         IF v.s = "" THEN Num(0)
         ELSE IF ParseDigits(v.s) = -1 THEN NaN ELSE Num(ParseDigits(v.s))
    [] v.t = "array" -> IF v.a = <<>> THEN Num(0) ELSE NaN
    [] OTHER -> NaN

\* Number.isFinite(v)
NumberIsFinite(v) == v.t = "number"

\* String(v)
ToText(v) ==
  CASE v.t = "string" -> v
    [] v.t = "number" -> Str(Decimal(v.n))
    [] v.t = "nan" -> Str("NaN")
    [] v.t = "boolean" -> Str(IF v.b THEN "true" ELSE "false")
    [] v.t = "array" -> Str(Join(v.a, ","))
    [] OTHER -> Str("undefined")

\* runFromTemplate: options, but for name and scriptPath.
TemplateOptions(template, settings) ==
  [namespace |-> Or(template.namespace, settings.defaultNamespace),
   image |-> Or(template.image, settings.defaultImage),
   gpu |-> IF NumberIsFinite(ToNumber(template.gpu)) THEN ToNumber(template.gpu)
           ELSE Num(1),
   cpu |-> ToText(Or(template.cpu, Str("2"))),
   memory |-> ToText(Or(template.mem, Or(template.memory, Str("16Gi")))),
   pip |-> IF template.pip.t = "array" THEN template.pip ELSE Arr(<<>>),
   apt |-> IF template.apt.t = "array" THEN template.apt ELSE Arr(<<>>),
   autoPVCforPip |-> IF template.autoPVCforPip # Absent
                     THEN Bool(JsTruthy(template.autoPVCforPip))
                     ELSE settings.autoPVCforPip]

\* getSettings(): the settings runFromTemplate reads.
TemplateSettings ==
  [defaultNamespace : {Str("kubeflow-user")},
   defaultImage : {Str("pytorch/pytorch:2.1.0-cuda12.1-cudnn8-runtime")},
   autoPVCforPip : {Bool(TRUE), Bool(FALSE)}]

\* The templates of the templates file: every field is absent or set.
Templates ==
  [namespace : {Absent, Str("team-a"), Str("")},
   image : {Absent, Str("python:3.11")},
   gpu : {Absent, Num(0), Num(2), Str("4"), Str("many")},
   cpu : {Absent, Num(0), Num(4), Str("500m")},
   mem : {Absent, Str("8Gi")},
   memory : {Absent, Str("4Gi")},
   pip : {Absent, Arr(<<>>), Arr(<<"b", "a">>)},
   apt : {Absent, Arr(<<"libgdal-dev">>)},
   autoPVCforPip : {Absent, Bool(TRUE), Bool(FALSE)}]

TemplateCalls ==
  {[fn |-> "template", done |-> FALSE, template |-> tpl, settings |-> s] :
     tpl \in Templates, s \in TemplateSettings}

(***************************************************************************)
(* The text of the errors a failed login, refresh or request to the        *)
(* cluster ends in, and what the user is shown of it.                      *)
(***************************************************************************)
\* The values a run keeps secret.
Credentials ==
  [password : {"hunter2", "Tr0ub4dor"},
   accessToken : {"eyJhbGciOi.A", "eyJhbGciOi.B"},
   refreshToken : {"eyJyZWZyZXNo.A", "eyJyZWZyZXNo.B"}]

\* What is sent: the password grant of loginInteractive, the refresh_token
\* grant of refreshSession, or a request to the cluster with its bearer.
SentRequest(kind, creds, url, clientId) ==
  [url |-> url, client_id |-> clientId,
   secret |-> CASE kind = "login" -> creds.password
                [] kind = "refresh" -> creds.refreshToken
                [] OTHER -> creds.accessToken]

\* Bodies of the responses of a token endpoint that are JSON documents with
\* the fields error and error_description ("" when the field is absent).
AuthErrorDocs ==
  {[error |-> "invalid_grant", error_description |-> "Invalid user credentials"],
   [error |-> "invalid_client", error_description |-> ""],
   [error |-> "unauthorized_client", error_description |-> "Client not allowed"],
   [error |-> "server_error", error_description |-> ""],
   [error |-> "", error_description |-> ""]}

\* The JSON text of such a document.
JsonOfError(doc) ==
  "{" \o
  Join((IF doc.error # "" THEN <<"\"error\":\"" \o doc.error \o "\"">> ELSE <<>>) \o
       (IF doc.error_description # ""
        THEN <<"\"error_description\":\"" \o doc.error_description \o "\"">>
        ELSE <<>>), ",") \o
  "}"

\* Bodies that are no JSON: JSON.parse throws.
PlainBodies == {"", "Bad Gateway\n", " upstream timed out"}
AuthErrorBodies == {JsonOfError(doc) : doc \in AuthErrorDocs} \cup PlainBodies

\* s.trim(), of a text.
RECURSIVE TrimText(_)
TrimText(s) ==
  IF Len(s) = 0 THEN s
  ELSE IF SubSeq(s, 1, 1) \in {" ", "\n"} THEN TrimText(SubSeq(s, 2, Len(s)))
  ELSE IF SubSeq(s, Len(s), Len(s)) \in {" ", "\n"}
  THEN TrimText(SubSeq(s, 1, Len(s) - 1))
  ELSE s

\* buildAuthErrorMessage(status, body, tokenEndpoint, clientId)
BuildAuthErrorMessage(status, body, tokenEndpoint, clientId) ==
  LET raw == TrimText(body)
      docs == {doc \in AuthErrorDocs : JsonOfError(doc) = body}
  IN IF docs = {}
     THEN "Authentication failed (" \o Decimal(status) \o ") at " \o tokenEndpoint \o
          ": " \o raw
     ELSE LET parsed == CHOOSE doc \in docs : TRUE
              err == parsed.error
              desc == parsed.error_description
              joined == Join(SelectSeq(<<err, desc>>, LAMBDA x : x # ""), ": ")
              details == IF joined # "" THEN joined ELSE raw
          IN IF err \in {"invalid_client", "unauthorized_client"}
             THEN "Authentication failed (" \o Decimal(status) \o "): " \o details \o
                  ". Verify Keycloak client \"" \o clientId \o
                  "\" exists, is public or has proper secret, and has Direct Access Grants enabled."
             ELSE IF err = "invalid_grant"
             THEN "Authentication failed (" \o Decimal(status) \o "): " \o details \o
                  ". Credentials may be correct, but user can be blocked by required actions, temporary disablement, or missing password grant permissions in Keycloak."
             ELSE "Authentication failed (" \o Decimal(status) \o ") at " \o
                  tokenEndpoint \o ": " \o details

\* Mutant: the message of a failed request quotes what was sent.
ErrorMessage_QuotesRequest(kind, request, status, body) ==
  IF kind = "request"
  THEN "Kubernetes API error " \o Decimal(status) \o ": " \o body \o
       " (Authorization: Bearer " \o request.secret \o ")"
  ELSE BuildAuthErrorMessage(status, body, request.url, request.client_id) \o
       " (sent " \o request.secret \o ")"

\* The message of the Error thrown when the response to `request` is not ok:
\* by loginInteractive and refreshSession, and by request()/requestRaw().
ErrorMessage(kind, request, status, body) ==
  IF kind = "request"
  THEN "Kubernetes API error " \o Decimal(status) \o ": " \o body
  ELSE BuildAuthErrorMessage(status, body, request.url, request.client_id)

\* What the user is shown: the command kubeflow.login, the timer callback
\* of scheduleRefresh, and the command kubeflow.runTrainingJob.
SurfacedText(kind, message) ==
  LET errorMsg == "Error: " \o message IN
  CASE kind = "login" ->
         IF Includes(errorMsg, "Authentication failed (403)")
         THEN "Kubeflow login failed (403). Check kflow.keycloak.realm/tokenUrl and verify Keycloak client settings (kflow.keycloak.clientId, Direct Access Grants)."
         ELSE "Kubeflow login failed: " \o errorMsg
    [] kind = "refresh" -> "Kubeflow session refresh failed: " \o errorMsg
    [] OTHER -> "Run failed: " \o errorMsg

\* Two runs of the same failing exchange, which differ in their credentials
\* at most.
ErrorStatuses == {401, 403, 500}
ErrorCalls ==
  {[fn |-> "error", done |-> FALSE, kind |-> k, status |-> s, body |-> b,
    url |-> IF k = "request" THEN "https://kf.example.com/api/v1/namespaces/kubeflow-user/configmaps"
            ELSE "https://kf.example.com/realms/kubeflow/protocol/openid-connect/token",
    clientId |-> "kubeflow-vscode",
    creds |-> <<c1, c2>>] :
     k \in {"login", "refresh", "request"}, s \in ErrorStatuses, b \in AuthErrorBodies,
     c1 \in Credentials, c2 \in Credentials}

(***************************************************************************)
(* Initial state: the extension is activated over an empty secret store.   *)
(***************************************************************************)
Init ==
  /\ now = 0
  /\ ticks = 0
  /\ session = NoSession
  /\ timer = NoTimer
  /\ timeouts = {}
  /\ store = EmptyStore
  /\ procs = [p \in Procs |-> IdleProc]
  /\ lastManifest = NoManifest
  /\ forcedOut = FALSE
  /\ call = NoCall

\* The state of the operation and of lastManifest become those of plan.
Become(p, plan) ==
  /\ procs' = [procs EXCEPT ![p] = plan.proc]
  /\ lastManifest' = plan.lm

\* The code of signOut() up to its await: the session and the timer are
\* dropped and the three deletes are issued.
SignOutBody ==
  /\ session' = NoSession
  /\ timer' = NoTimer
  /\ timeouts' = ClearTimeout(timeouts)
  /\ store' = EmptyStore

\* The code of setSession(s) up to its first await.
SetSessionBegin(p, s) ==
  /\ session' = s
  /\ store' = StorePut(store, ACCESS_TOKEN_KEY, s.accessToken)
  /\ procs' = [procs EXCEPT ![p].pc = "ss_access", ![p].lsess = s,
                            ![p].grant = Undefined]
  /\ UNCHANGED <<timer, timeouts, lastManifest>>

\* refreshSession() has thrown err.  The timer callback catches it, warns
\* and signs out; ensureValidSession lets it pass to request() and so to
\* the operation that made the request.
RefreshFailed(p, err) ==
  IF p = TimerProc
  THEN /\ SignOutBody
       /\ procs' = [procs EXCEPT ![p].pc = "so_wait", ![p].res = err,
                                 ![p].grant = Undefined]
       /\ forcedOut' = TRUE
       /\ UNCHANGED lastManifest
  ELSE /\ Become(p, Throw([procs[p] EXCEPT !.grant = Undefined],
                          procs[p].stage, lastManifest, err, 0))
       /\ UNCHANGED <<authVars, forcedOut>>

\* A window reload: the extension host is torn down (dispose() clears the
\* timer, pending operations die with the host) and activate() runs
\* initialize() on a new AuthService over the same secret store.
Activate ==
  /\ session' = RestoredSession
  /\ timer' = (IF RestoredSession.exists
               THEN SetTimeout({}, now + RefreshDelay(RestoredSession))
               ELSE NoTimer)
  /\ timeouts' = (IF RestoredSession.exists
                  THEN {SetTimeout({}, now + RefreshDelay(RestoredSession))}
                  ELSE {})
  /\ procs' = [p \in Procs |-> IdleProc]
  /\ lastManifest' = NoManifest
  /\ forcedOut' = FALSE
  /\ UNCHANGED <<call, now, ticks, store>>

(***************************************************************************)
(* loginInteractive                                                        *)
(***************************************************************************)
\* loginInteractive() up to its fetch.
LoginBegin(p) ==
  /\ p \in UserProcs
  /\ procs[p].pc = "idle"
  /\ procs' = [procs EXCEPT ![p] =
       [IdleProc EXCEPT !.pc = "loginWait", !.op = "login"]]
  /\ UNCHANGED <<call, now, ticks, authVars, lastManifest, forcedOut>>

\* Mutant: a login that is rejected signs the user out.
LoginRejected_SignsOut(p) ==
  /\ procs[p].pc = "loginWait"
  /\ SignOutBody
  /\ procs' = [procs EXCEPT ![p] = Done(procs[p], "loginFailed")]
  /\ UNCHANGED <<call, now, ticks, lastManifest, forcedOut>>

\* The token endpoint rejects the password grant.
LoginRejected(p) ==
  /\ procs[p].pc = "loginWait"
  /\ procs' = [procs EXCEPT ![p] = Done(procs[p], "loginFailed")]
  /\ UNCHANGED <<call, now, ticks, authVars, lastManifest, forcedOut>>

\* loginInteractive() after `await res.json()` has given payload.
LoginAnswered(p, payload) ==
  /\ procs[p].pc = "loginWait"
  /\ SetSessionBegin(p,
       MkSession(StringOf(payload.access_token),
                 IF Truthy(payload.refresh_token)
                 THEN StringOf(payload.refresh_token) ELSE Undefined,
                 ExpiresAtOf(payload)))
  /\ forcedOut' = FALSE
  /\ UNCHANGED <<call, now, ticks>>

\* The token endpoint answers the password grant with a 2xx payload.
LoginGranted(p) == \E payload \in LoginPayloads : LoginAnswered(p, payload)

(***************************************************************************)
(* refreshSession and setSession                                           *)
(***************************************************************************)
\* The token endpoint rejects the refresh_token grant.
RefreshRejected(p) ==
  /\ procs[p].pc = "refreshWait"
  /\ RefreshFailed(p, "authFailed")
  /\ UNCHANGED <<call, now, ticks>>

\* The token endpoint answers the refresh_token grant with a 2xx payload.
\* `this.session.refreshToken` is read only when the payload has no
\* refresh_token, and throws a TypeError when the session is gone by then.
RefreshAnswered(p, payload) ==
  /\ procs[p].pc = "refreshWait"
  /\ IF ~Truthy(payload.refresh_token) /\ ~session.exists
     THEN RefreshFailed(p, "typeError")
     ELSE /\ SetSessionBegin(p,
               MkSession(StringOf(payload.access_token),
                         IF Truthy(payload.refresh_token)
                         THEN StringOf(payload.refresh_token)
                         ELSE session.refreshToken,
                         ExpiresAtOf(payload)))
          /\ UNCHANGED forcedOut
  /\ UNCHANGED <<call, now, ticks>>

RefreshGranted(p) == \E payload \in RefreshPayloads : RefreshAnswered(p, payload)

\* setSession after `await secrets.store(ACCESS_TOKEN_KEY, ...)`.
SetSessionAfterAccess(p) ==
  /\ procs[p].pc = "ss_access"
  /\ IF Truthy(procs[p].lsess.refreshToken)
     THEN /\ store' = StorePut(store, REFRESH_TOKEN_KEY, procs[p].lsess.refreshToken)
          /\ procs' = [procs EXCEPT ![p].pc = "ss_refresh"]
     ELSE /\ store' = StorePut(store, EXPIRES_AT_KEY,
                               NumberToString(procs[p].lsess.expiresAt))
          /\ procs' = [procs EXCEPT ![p].pc = "ss_expiry"]
  /\ UNCHANGED <<call, now, ticks, session, timer, timeouts, lastManifest, forcedOut>>

\* setSession after `await secrets.store(REFRESH_TOKEN_KEY, ...)`.
SetSessionAfterRefresh(p) ==
  /\ procs[p].pc = "ss_refresh"
  /\ store' = StorePut(store, EXPIRES_AT_KEY, NumberToString(procs[p].lsess.expiresAt))
  /\ procs' = [procs EXCEPT ![p].pc = "ss_expiry"]
  /\ UNCHANGED <<call, now, ticks, session, timer, timeouts, lastManifest, forcedOut>>

\* setSession after `await secrets.store(EXPIRES_AT_KEY, ...)`:
\* scheduleRefresh() runs and setSession returns.  loginInteractive and the
\* timer callback are then done; request() goes on to its fetch.
SetSessionEnd(p) ==
  /\ procs[p].pc = "ss_expiry"
  /\ timer' = ScheduleRefresh(session)
  /\ timeouts' = Scheduled(session)
  /\ IF procs[p].op \in {"login", "timer"}
     THEN Become(p, [proc |-> Done(procs[p], "ok"), lm |-> lastManifest])
     ELSE Become(p, Send(procs[p], procs[p].stage, lastManifest))
  /\ UNCHANGED <<call, now, ticks, session, store, forcedOut>>

(***************************************************************************)
(* signOut                                                                 *)
(***************************************************************************)
\* signOut() up to its await.
SignOutBegin(p) ==
  /\ p \in UserProcs
  /\ procs[p].pc = "idle"
  /\ SignOutBody
  /\ procs' = [procs EXCEPT ![p] = [IdleProc EXCEPT !.pc = "so_wait", !.op = "signOut"]]
  /\ UNCHANGED <<call, now, ticks, lastManifest, forcedOut>>

\* signOut() after `await Promise.all([...delete...])`.
SignOutEnd(p) ==
  /\ procs[p].pc = "so_wait"
  /\ procs' = [procs EXCEPT ![p] =
       Done(procs[p], IF p = TimerProc THEN procs[p].res ELSE "ok")]
  /\ UNCHANGED <<call, now, ticks, authVars, lastManifest, forcedOut>>

(***************************************************************************)
(* The refresh timer                                                       *)
(***************************************************************************)
\* The timeout armed by scheduleRefresh fires and is no longer pending; its
\* callback runs refreshSession() up to the fetch, or to its throw.
TimerFire ==
  /\ procs[TimerProc].pc = "idle"
  /\ \E fired \in timeouts :
       /\ now >= fired.due
       /\ IF ~session.exists \/ ~Truthy(session.refreshToken)
          THEN /\ session' = NoSession
               /\ timer' = NoTimer
               /\ timeouts' = ClearTimeout(timeouts \ {fired})
               /\ store' = EmptyStore
               /\ procs' = [procs EXCEPT ![TimerProc] =
                    [IdleProc EXCEPT !.pc = "so_wait", !.op = "timer",
                                     !.res = "noRefreshToken"]]
               /\ forcedOut' = TRUE
          ELSE /\ timer' = (IF timer.id = fired.id THEN NoTimer ELSE timer)
               /\ timeouts' = timeouts \ {fired}
               /\ procs' = [procs EXCEPT ![TimerProc] =
                    [IdleProc EXCEPT !.pc = "refreshWait", !.op = "timer",
                                     !.grant = session.refreshToken]]
               /\ UNCHANGED <<session, store, forcedOut>>
  /\ UNCHANGED <<call, now, ticks, lastManifest>>

Tick ==
  /\ ticks < MaxTicks
  /\ ticks' = ticks + 1
  /\ now' = now + TickMs
  /\ UNCHANGED <<call, authVars, procs, lastManifest, forcedOut>>

(***************************************************************************)
(* K8sApiClient and JobRunService                                          *)
(***************************************************************************)
\* listJobs(namespace): one GET through request().
ListBegin(p) ==
  /\ p \in UserProcs
  /\ procs[p].pc = "idle"
  /\ Become(p, Enter([IdleProc EXCEPT !.op = "list"], "list", lastManifest))
  /\ UNCHANGED <<call, now, ticks, authVars, forcedOut>>

\* request() after `await fetch(...)`: the cluster has answered with status.
K8sAnswer(p, status) ==
  /\ procs[p].pc = "k8sWait"
  /\ procs[p].stage # "pods"
  /\ LET q == [procs[p] EXCEPT !.bearer = "",
                                !.log = Append(@, Response(procs[p].stage, status))] IN
     IF IsOk(status)
     THEN Become(p, After(q, q.stage, lastManifest))
     ELSE Become(p, Throw(q, q.stage, lastManifest, "apiError", status))
  /\ UNCHANGED <<call, now, ticks, authVars, forcedOut>>

\* streamJobLogs(namespace, jobName, outputChannel) up to the fetch of
\* listPodsByJob.
LogsBegin(p) ==
  /\ p \in UserProcs
  /\ procs[p].pc = "idle"
  /\ Become(p, Enter([IdleProc EXCEPT !.op = "logs"], "pods", lastManifest))
  /\ UNCHANGED <<call, now, ticks, authVars, forcedOut>>

\* The pods a cluster lists for a job: each has a name and containers.
PodMaster == [name |-> "ptjob-1-master-0", containers |-> <<"pytorch", "sidecar">>]
PodWorker == [name |-> "ptjob-1-worker-0", containers |-> <<"worker">>]
PodLists == {<<>>, <<PodMaster>>, <<PodMaster, PodWorker>>, <<PodWorker, PodMaster>>}

\* request() after `await fetch(...)` of listPodsByJob: the cluster has
\* answered with status and, if that is 2xx, with the pods.  streamJobLogs
\* throws when there are none and else shows the quick pick.
PodsAnswer(p, status, pods) ==
  /\ procs[p].pc = "k8sWait"
  /\ procs[p].stage = "pods"
  /\ LET q == [procs[p] EXCEPT !.bearer = "",
                                !.log = Append(@, Response("pods", status))] IN
     IF ~IsOk(status)
     THEN Become(p, Throw(q, "pods", lastManifest, "apiError", status))
     ELSE IF Len(pods) = 0
     THEN Become(p, [proc |-> Done(q, "noPods"), lm |-> lastManifest])
     ELSE Become(p, [proc |-> [q EXCEPT !.pc = "prompt", !.prompt = "pod", !.items = pods],
                     lm |-> lastManifest])
  /\ UNCHANGED <<call, now, ticks, authVars, forcedOut>>

PodsResponse(p) ==
  \E status \in K8sStatuses, pods \in PodLists : PodsAnswer(p, status, pods)

\* The cluster answers the request p waits for.
K8sResponse(p) == \E status \in K8sStatuses : K8sAnswer(p, status)

\* submitRun(options, settings) up to the await in packageToTarGz.
SubmitRunBegin(p) ==
  /\ p \in UserProcs
  /\ procs[p].pc = "idle"
  /\ \E options \in JobOptions :
       procs' = [procs EXCEPT ![p] =
         [IdleProc EXCEPT !.pc = "packaging", !.op = "submitRun", !.opts = options]]
  /\ UNCHANGED <<call, now, ticks, authVars, lastManifest, forcedOut>>

\* packageToTarGz returns the archive; readBase64 begins.
PackageDone(p) ==
  /\ procs[p].pc = "packaging"
  /\ procs' = [procs EXCEPT ![p].pc = "encoding",
                            ![p].log = Append(@, LocalStep("package"))]
  /\ UNCHANGED <<call, now, ticks, authVars, lastManifest, forcedOut>>

\* fs.stat or tar fails: packageToTarGz throws.
PackageFailed(p) ==
  /\ procs[p].pc = "packaging"
  /\ procs' = [procs EXCEPT ![p] = Done(procs[p], "ioError")]
  /\ UNCHANGED <<call, now, ticks, authVars, lastManifest, forcedOut>>

\* readBase64 returns; the ConfigMap named <job>-artifact is created.
EncodeDone(p) ==
  /\ procs[p].pc = "encoding"
  /\ Become(p, Enter([procs[p] EXCEPT !.log = Append(@, LocalStep("encode"))],
                     "cm", lastManifest))
  /\ UNCHANGED <<call, now, ticks, authVars, forcedOut>>

\* fs.readFile fails: readBase64 throws.
EncodeFailed(p) ==
  /\ procs[p].pc = "encoding"
  /\ procs' = [procs EXCEPT ![p] = Done(procs[p], "ioError")]
  /\ UNCHANGED <<call, now, ticks, authVars, lastManifest, forcedOut>>

(***************************************************************************)
(* The prompts of the interactive commands.  showInputBox and              *)
(* showQuickPick are awaited; they resolve to undefined when the user      *)
(* dismisses them.                                                         *)
(***************************************************************************)
\* The input boxes of loginInteractive and of runFromActivePythonFile, in
\* the order they are shown.
LoginPrompts == <<"url", "username", "password">>
RunPrompts == <<"name", "image", "gpu", "cpu", "memory", "namespace", "pip", "apt">>

\* The prompt shown after prompt x, "none" after the last.
PromptAfter(prompts, x) ==
  LET i == CHOOSE k \in 1..Len(prompts) : prompts[k] = x IN
  IF i < Len(prompts) THEN prompts[i + 1] ELSE "none"

\* The operation returns at a prompt that was dismissed.
Returns(q) == Done(q, "returned")

\* submitRun(options, settings) is called: it awaits packageToTarGz.
SubmitRun(q, options) ==
  [q EXCEPT !.pc = "packaging", !.op = "submitRun", !.opts = options, !.prompt = "none"]

\* kflow.keycloak.tokenUrl at a login: not set, or set to a text that is no
\* absolute URL.
LoginTokenUrls == {<<>>, <<"kc.example.com/token">>}

\* loginInteractive after the prompt it has open: `if (!x) return`, the
\* next prompt, or, after the last, resolveTokenEndpoint and its throw or
\* the fetch of the password grant.
LoginPrompted(q, dismissed) ==
  IF dismissed THEN {Returns(q)}
  ELSE IF PromptAfter(LoginPrompts, q.prompt) = "none"
  THEN {IF ResolveTokenEndpoint(<<"https://", "kf.example.com">>, <<>>, tokenUrl).threw
        THEN Done(q, "invalidTokenUrl")
        ELSE [q EXCEPT !.pc = "loginWait", !.prompt = "none"] :
          tokenUrl \in LoginTokenUrls}
  ELSE {[q EXCEPT !.prompt = PromptAfter(LoginPrompts, q.prompt)]}

\* runFromActivePythonFile after the prompt it has open.  Only the job name
\* has `if (!name) return`; every other prompt has `|| <default>`, so that a
\* dismissed prompt gives the default and the operation goes on.  The user
\* types the name ptjob-1 and the namespace that is the default.
RunPrompted(q, dismissed) ==
  IF q.prompt = "name" /\ dismissed THEN {Returns(q)}
  ELSE LET o == [q.opts EXCEPT
                   !.name = IF q.prompt = "name" THEN <<"ptjob-1">> ELSE @,
                   !.namespace = IF q.prompt = "namespace" THEN "kubeflow-user" ELSE @]
       IN IF PromptAfter(RunPrompts, q.prompt) = "none"
          THEN {SubmitRun(q, o)}
          ELSE {[q EXCEPT !.opts = o, !.prompt = PromptAfter(RunPrompts, q.prompt)]}

\* runFromTemplate after the quick pick of pickTemplateFromWorkspace:
\* `if (!template) return`, the throw when no Python file is open, or
\* submitRun with the options merged from the template.
TemplatePrompted(q, dismissed) ==
  IF dismissed THEN {Returns(q)}
  ELSE {Done(q, "noEditor")} \cup {SubmitRun(q, o) : o \in JobOptions}

\* Mutant: a dismissed quick pick falls back to the last pod listed.
LogsPrompted_LastPod(q, dismissed) ==
  {Enter([q EXCEPT !.prompt = "none", !.picked = pick], "logs", lastManifest).proc :
     pick \in IF dismissed
              THEN {[label |-> Undefined, name |-> q.items[Len(q.items)].name]}
              ELSE {[label |-> q.items[i].name, name |-> Undefined] :
                      i \in 1..Len(q.items)}}

\* streamJobLogs after its quick pick: pickedPod is the item picked, or
\* `|| items[0]`; getPodLogs is called, up to its fetch or to its throw.
LogsPrompted(q, dismissed) ==
  {Enter([q EXCEPT !.prompt = "none", !.picked = pick], "logs", lastManifest).proc :
     pick \in IF dismissed
              THEN {[label |-> Undefined, name |-> q.items[1].name]}
              ELSE {[label |-> q.items[i].name, name |-> Undefined] :
                      i \in 1..Len(q.items)}}

Prompted(q, dismissed) ==
  CASE q.op = "login" -> LoginPrompted(q, dismissed)
    [] q.op = "run" -> RunPrompted(q, dismissed)
    [] q.op = "template" -> TemplatePrompted(q, dismissed)
    [] q.op = "logs" -> LogsPrompted(q, dismissed)

\* loginInteractive() up to its first prompt.
LoginPrompt(p) ==
  /\ p \in UserProcs
  /\ procs[p].pc = "idle"
  /\ procs' = [procs EXCEPT ![p] =
       [IdleProc EXCEPT !.pc = "prompt", !.op = "login", !.prompt = "url",
                        !.before = <<session, timer, timeouts, store>>]]
  /\ UNCHANGED <<call, now, ticks, authVars, lastManifest, forcedOut>>

\* runFromActivePythonFile() up to its first prompt, or to its return when
\* the active editor holds no Python file.
RunBegin(p) ==
  /\ p \in UserProcs
  /\ procs[p].pc = "idle"
  /\ \E python \in BOOLEAN, auto \in BOOLEAN :
       procs' = [procs EXCEPT ![p] =
         IF ~python THEN Done([IdleProc EXCEPT !.op = "run"], "noEditor")
         ELSE [IdleProc EXCEPT !.pc = "prompt", !.op = "run", !.prompt = "name",
                               !.opts = [NoOptions EXCEPT !.autoPVCforPip = auto]]]
  /\ UNCHANGED <<call, now, ticks, authVars, lastManifest, forcedOut>>

\* runFromTemplate() up to the quick pick of pickTemplateFromWorkspace, or
\* to its throw when there is no workspace or no template to read.
TemplateBegin(p) ==
  /\ p \in UserProcs
  /\ procs[p].pc = "idle"
  /\ \E readable \in BOOLEAN :
       procs' = [procs EXCEPT ![p] =
         IF ~readable THEN Done([IdleProc EXCEPT !.op = "template"], "noTemplates")
         ELSE [IdleProc EXCEPT !.pc = "prompt", !.op = "template", !.prompt = "template"]]
  /\ UNCHANGED <<call, now, ticks, authVars, lastManifest, forcedOut>>

\* The user answers the prompt p has open.
PromptAnswered(p) ==
  /\ procs[p].pc = "prompt"
  /\ \E r \in Prompted(procs[p], FALSE) : procs' = [procs EXCEPT ![p] = r]
  /\ UNCHANGED <<call, now, ticks, authVars, lastManifest, forcedOut>>

\* The user dismisses the prompt p has open (Escape).
PromptDismissed(p) ==
  /\ procs[p].pc = "prompt"
  /\ \E r \in Prompted(procs[p], TRUE) : procs' = [procs EXCEPT ![p] = r]
  /\ UNCHANGED <<call, now, ticks, authVars, lastManifest, forcedOut>>

(***************************************************************************)
(* Spec: the session manager under every interleaving of login, sign-out,  *)
(* requests to the cluster, the refresh timer and window reloads.          *)
(***************************************************************************)
Next ==
  \/ Tick
  \/ Activate
  \/ TimerFire
  \/ \E p \in Procs :
       \/ LoginBegin(p)
       \/ LoginRejected(p)
       \/ LoginGranted(p)
       \/ RefreshRejected(p)
       \/ RefreshGranted(p)
       \/ SetSessionAfterAccess(p)
       \/ SetSessionAfterRefresh(p)
       \/ SetSessionEnd(p)
       \/ SignOutBegin(p)
       \/ SignOutEnd(p)
       \/ ListBegin(p)
       \/ K8sResponse(p)

Spec == Init /\ [][Next]_vars

(***************************************************************************)
(* SpecLive: Spec with a timer that fires once it is due and the process   *)
(* is free to run its callback, a token endpoint that answers every grant, *)
(* and a secret store that completes every write and delete.               *)
(***************************************************************************)
Fairness ==
  /\ WF_vars(TimerFire)
  /\ \A p \in Procs :
       /\ WF_vars(RefreshRejected(p) \/ RefreshGranted(p))
       /\ WF_vars(LoginRejected(p) \/ LoginGranted(p))
       /\ WF_vars(SetSessionAfterAccess(p) \/ SetSessionAfterRefresh(p)
                    \/ SetSessionEnd(p))
       /\ WF_vars(SignOutEnd(p))

SpecLive == Spec /\ Fairness

(***************************************************************************)
(* SpecJob: the job workflows of JobRunService beside the session manager. *)
(***************************************************************************)
NextJob ==
  \/ Tick
  \/ TimerFire
  \/ \E p \in Procs :
       \/ LoginBegin(p)
       \/ LoginRejected(p)
       \/ LoginGranted(p)
       \/ RefreshRejected(p)
       \/ RefreshGranted(p)
       \/ SetSessionAfterAccess(p)
       \/ SetSessionAfterRefresh(p)
       \/ SetSessionEnd(p)
       \/ SignOutBegin(p)
       \/ SignOutEnd(p)
       \/ K8sResponse(p)
       \/ SubmitRunBegin(p)
       \/ PackageDone(p)
       \/ PackageFailed(p)
       \/ EncodeDone(p)
       \/ EncodeFailed(p)

SpecJob == Init /\ [][NextJob]_vars

(***************************************************************************)
(* SpecRestart: submitRun and restartLastRun over the session manager,     *)
(* without the refresh timer, which plays no part in them.  The cache      *)
(* starts empty, or holding a job manifest with the metadata a cluster     *)
(* sets on an object it has stored.                                        *)
(***************************************************************************)
\* At most MaxRestarts restarts follow one another (each makes the name of
\* the cached manifest longer).
MaxRestarts == 2

RECURSIVE RestartCount(_)
RestartCount(name) ==
  IF name = <<>> THEN 0
  ELSE (IF Head(name) = "-restart-" THEN 1 ELSE 0) + RestartCount(Tail(name))

CachedManifests ==
  {[BuildPyTorchJob(o, ArtifactName(o.name))
      EXCEPT !.name = <<"ptjob-123">>, !.meta = @ \cup extra] :
     o \in {x \in JobOptions : ~x.autoPVCforPip},
     extra \in {{"resourceVersion", "uid", "creationTimestamp"}}}

InitRestart ==
  /\ now = 0
  /\ ticks = 0
  /\ session = NoSession
  /\ timer = NoTimer
  /\ timeouts = {}
  /\ store = EmptyStore
  /\ procs = [p \in Procs |-> IdleProc]
  /\ lastManifest \in {NoManifest} \cup CachedManifests
  /\ forcedOut = FALSE
  /\ call = NoCall

\* restartLastRun() up to the fetch of its create request, or to its throw.
RestartBegin(p) ==
  /\ p \in UserProcs
  /\ procs[p].pc = "idle"
  /\ IF lastManifest = NoManifest
     THEN Become(p, [proc |-> RestartRefused([IdleProc EXCEPT !.op = "restart"]),
                     lm |-> lastManifest])
     ELSE /\ RestartCount(lastManifest.name) < MaxRestarts
          /\ Become(p, Enter([IdleProc EXCEPT !.op = "restart",
                                               !.manifest = RestartManifest(lastManifest)],
                              "job", lastManifest))
  /\ UNCHANGED <<call, now, ticks, authVars, forcedOut>>

NextRestart ==
  \/ Tick
  \/ \E p \in Procs :
       \/ LoginBegin(p)
       \/ LoginRejected(p)
       \/ LoginGranted(p)
       \/ RefreshRejected(p)
       \/ RefreshGranted(p)
       \/ SetSessionAfterAccess(p)
       \/ SetSessionAfterRefresh(p)
       \/ SetSessionEnd(p)
       \/ SignOutBegin(p)
       \/ SignOutEnd(p)
       \/ K8sResponse(p)
       \/ SubmitRunBegin(p)
       \/ PackageDone(p)
       \/ EncodeDone(p)
       \/ RestartBegin(p)

SpecRestart == InitRestart /\ [][NextRestart]_vars

(***************************************************************************)
(* SpecTokens: the session manager alone, with an identity provider whose  *)
(* 2xx token responses may lack access_token or have it empty, and may     *)
(* have expires_in absent, 0 or negative.                                  *)
(***************************************************************************)
AnyExpiresIn == {<<>>, <<0>>, <<-60>>, <<600>>}
AnyLoginPayloads ==
  [access_token : {"a1", "", Undefined}, refresh_token : {"r1"},
   expires_in : AnyExpiresIn]
AnyRefreshPayloads ==
  [access_token : {"a2", "", Undefined}, refresh_token : {Undefined},
   expires_in : AnyExpiresIn]

LoginGrantedAny(p) == \E payload \in AnyLoginPayloads : LoginAnswered(p, payload)
RefreshGrantedAny(p) == \E payload \in AnyRefreshPayloads : RefreshAnswered(p, payload)

NextTokens ==
  \/ Tick
  \/ Activate
  \/ TimerFire
  \/ \E p \in Procs :
       \/ LoginBegin(p)
       \/ LoginRejected(p)
       \/ LoginGrantedAny(p)
       \/ RefreshRejected(p)
       \/ RefreshGrantedAny(p)
       \/ SetSessionAfterAccess(p)
       \/ SetSessionAfterRefresh(p)
       \/ SetSessionEnd(p)
       \/ SignOutBegin(p)
       \/ SignOutEnd(p)

SpecTokens == Init /\ [][NextTokens]_vars

(***************************************************************************)
(* SpecShort: Spec with an identity provider whose tokens last at most     *)
(* 300 s: expires_in is absent, 0 (both give the default), 60 or 300.      *)
(***************************************************************************)
ShortExpiresIn == {<<>>, <<0>>, <<60>>, <<300>>}
ShortLoginPayloads ==
  [access_token : {"a1"}, refresh_token : {Undefined, "r1"}, expires_in : ShortExpiresIn]
ShortRefreshPayloads ==
  [access_token : {"a2"}, refresh_token : {Undefined, "r2"}, expires_in : ShortExpiresIn]

LoginGrantedShort(p) == \E payload \in ShortLoginPayloads : LoginAnswered(p, payload)
RefreshGrantedShort(p) == \E payload \in ShortRefreshPayloads : RefreshAnswered(p, payload)

NextShort ==
  \/ Tick
  \/ Activate
  \/ TimerFire
  \/ \E p \in Procs :
       \/ LoginBegin(p)
       \/ LoginRejected(p)
       \/ LoginGrantedShort(p)
       \/ RefreshRejected(p)
       \/ RefreshGrantedShort(p)
       \/ SetSessionAfterAccess(p)
       \/ SetSessionAfterRefresh(p)
       \/ SetSessionEnd(p)
       \/ SignOutBegin(p)
       \/ SignOutEnd(p)
       \/ ListBegin(p)
       \/ K8sResponse(p)

SpecShort == Init /\ [][NextShort]_vars

(***************************************************************************)
(* SpecRun: the interactive commands with their prompts (login, run a      *)
(* training job, run from a template) over the session manager, the clock  *)
(* standing still.                                                         *)
(***************************************************************************)
NextRun ==
  \E p \in Procs :
    \/ LoginPrompt(p)
    \/ RunBegin(p)
    \/ TemplateBegin(p)
    \/ PromptAnswered(p)
    \/ PromptDismissed(p)
    \/ LoginRejected(p)
    \/ LoginGranted(p)
    \/ RefreshRejected(p)
    \/ RefreshGranted(p)
    \/ SetSessionAfterAccess(p)
    \/ SetSessionAfterRefresh(p)
    \/ SetSessionEnd(p)
    \/ SignOutBegin(p)
    \/ SignOutEnd(p)
    \/ K8sResponse(p)
    \/ PackageDone(p)
    \/ EncodeDone(p)
    \/ LogsBegin(p)
    \/ PodsResponse(p)

SpecRun == Init /\ [][NextRun]_vars

(***************************************************************************)
(* SpecPure: one function of the program applied to one input.             *)
(***************************************************************************)
InitPure ==
  /\ now = 0
  /\ ticks = 0
  /\ session = NoSession
  /\ timer = NoTimer
  /\ timeouts = {}
  /\ store = EmptyStore
  /\ procs = [p \in Procs |-> IdleProc]
  /\ lastManifest = NoManifest
  /\ forcedOut = FALSE
  /\ call \in ResponseCalls \cup EndpointCalls \cup LogCalls \cup CommandCalls
          \cup TemplateCalls \cup ErrorCalls

\* The function is applied.
Apply ==
  /\ ~call.done
  /\ call.fn = "response"
  /\ call' = [call EXCEPT !.done = TRUE] @@
              [out |-> HandleResponse(call.raw, call.status, call.body)]
  /\ UNCHANGED <<now, ticks, authVars, procs, lastManifest, forcedOut>>

\* resolveTokenEndpoint is applied and the token request, if any, goes out.
ResolveEndpoint ==
  /\ ~call.done
  /\ call.fn = "endpoint"
  /\ LET endpoint == ResolveTokenEndpoint(call.url, call.realm, call.tokenUrl) IN
     call' = [call EXCEPT !.done = TRUE] @@
               [out |-> endpoint, requests |-> TokenRequests(endpoint)]
  /\ UNCHANGED <<now, ticks, authVars, procs, lastManifest, forcedOut>>

\* streamJobLogs writes the text it fetched to the output channel.
AnnotateLogs ==
  /\ ~call.done
  /\ call.fn = "logs"
  /\ call' = [call EXCEPT !.done = TRUE] @@
              [out |-> AppendedLines("ptjob-1", "ptjob-1-master-0", call.logs)]
  /\ UNCHANGED <<now, ticks, authVars, procs, lastManifest, forcedOut>>

\* buildPyTorchJob is applied.
BuildJob ==
  /\ ~call.done
  /\ call.fn = "command"
  /\ call' = [call EXCEPT !.done = TRUE] @@
              [out |-> BuildPyTorchJob(call.options, ArtifactName(call.options.name))]
  /\ UNCHANGED <<now, ticks, authVars, procs, lastManifest, forcedOut>>

\* runFromTemplate builds the options of the run.
MergeTemplate ==
  /\ ~call.done
  /\ call.fn = "template"
  /\ call' = [call EXCEPT !.done = TRUE] @@
              [out |-> TemplateOptions(call.template, call.settings)]
  /\ UNCHANGED <<now, ticks, authVars, procs, lastManifest, forcedOut>>

\* The exchange fails in both runs and each shows its error.
SurfaceError ==
  /\ ~call.done
  /\ call.fn = "error"
  /\ call' = [call EXCEPT !.done = TRUE] @@
              [out |-> [i \in 1..2 |->
                 SurfacedText(call.kind,
                   ErrorMessage(call.kind,
                     SentRequest(call.kind, call.creds[i], call.url, call.clientId),
                     call.status, call.body))]]
  /\ UNCHANGED <<now, ticks, authVars, procs, lastManifest, forcedOut>>

NextPure ==
  \/ Apply
  \/ ResolveEndpoint
  \/ AnnotateLogs
  \/ BuildJob
  \/ MergeTemplate
  \/ SurfaceError

SpecPure == InitPure /\ [][NextPure]_vars

(***************************************************************************)
(* Properties.                                                             *)
(***************************************************************************)
\* "5 minutes", in milliseconds.
FiveMinutesMs == 5 * 60 * 1000

\* The refresh_token grant p waits for fails: the token endpoint rejects it,
\* or its 2xx answer cannot be used.
RefreshFails(p) ==
  \/ RefreshRejected(p)
  \/ RefreshGranted(p) /\ procs'[p].pc # "ss_access"

\* C1: whenever refreshSession() fails, on every path that invokes it (from
\* ensureValidSession as well as from the timer), the session is signed out:
\* the in-memory session is cleared and the persisted keys are deleted.
C1_RefreshFailureSignsOut ==
  [][\A p \in Procs :
       RefreshFails(p) => (~session'.exists /\ store' = EmptyStore)]_vars

\* C2: concurrent refresh attempts are coalesced: at most one refresh_token
\* grant request is outstanding at any time.
C2_RefreshCoalesced ==
  Cardinality({p \in Procs : procs[p].pc = "refreshWait"}) <= 1

\* setSession(session) has returned to the login that called it, and nothing
\* else ran beside it: the timer callback has not run since the last reload.
SetSessionReturned ==
  /\ session.exists
  /\ procs[TimerProc] = IdleProc
  /\ \A p \in UserProcs :
       procs[p].pc = "idle" /\ procs[p].op = "login" /\ procs[p].res = "ok"

\* C3: setSession(s) followed by initialize() on a fresh session manager over
\* the same store reconstructs s, whatever the store held before: a reload
\* in a state where setSession(s) has returned restores s in memory.
C3_RoundTrip ==
  [][(Activate /\ SetSessionReturned) => session' = session]_vars

\* C4: after signOut() completes, the in-memory session is absent, no refresh
\* timer is pending and the three persisted keys are absent from the store.
C4_SignedOutWhenSignOutReturns ==
  [][\A p \in UserProcs :
       (SignOutEnd(p) /\ procs[p].op = "signOut")
         => (~session'.exists /\ ~timer'.pending /\ store' = EmptyStore)]_vars

\* C5: for every session with now + 5 minutes < expiresAt, ensureValidSession()
\* returns without a request to the token endpoint (the request that called it
\* goes straight to the cluster) and leaves the session, the timer and the
\* secret store unchanged.
C5_FreshSessionIsNoOp ==
  [][\A p \in UserProcs :
       (ListBegin(p) /\ session.exists /\ now + FiveMinutesMs < session.expiresAt)
         => (/\ procs'[p].pc = "k8sWait"
             /\ \A q \in Procs : procs'[q].pc = "refreshWait" => procs[q].pc = "refreshWait"
             /\ UNCHANGED <<session, timer, store>>)]_vars

\* C5, witness: a request went to the cluster under the fresh session of the
\* login, which no refresh has replaced.
C5_Witness ==
  \E p \in UserProcs :
    /\ procs[p].op = "list" /\ procs[p].pc = "k8sWait" /\ procs[p].bearer = "a1"
    /\ session.exists /\ session.accessToken = "a1"
    /\ now + FiveMinutesMs < session.expiresAt

\* C6: when the timer fires and its refreshSession() fails, the session is
\* signed out and no further refresh is scheduled: from then until a new
\* login no timer is pending and no refresh request is issued.
C6_NoRefreshAfterForcedSignOut ==
  [][/\ forcedOut => ~timer.pending
     /\ (forcedOut /\ forcedOut') =>
          \A p \in Procs : procs'[p].pc = "refreshWait" => procs[p].pc = "refreshWait"]_vars

\* The timer callback signs out after a refreshSession() that failed.
ForcedSignOut ==
  \/ TimerFire /\ procs'[TimerProc].pc = "so_wait"
  \/ RefreshFails(TimerProc)

\* C7: the session becomes Authenticated only by a successful login (or the
\* restore of initialize), stays Authenticated across a successful refresh,
\* with the timer rearmed, and becomes Unauthenticated only by an explicit
\* sign-out or a refresh failure that forces one.
C7_SessionStateMachine ==
  [][/\ (~session.exists /\ session'.exists)
          => (Activate \/ \E p \in UserProcs : LoginGranted(p))
     /\ (session.exists /\ ~session'.exists)
          => (Activate \/ ForcedSignOut \/ \E p \in UserProcs : SignOutBegin(p))
     /\ \A p \in Procs :
          (SetSessionEnd(p) /\ procs[p].op # "login")
            => (session'.exists /\ timer'.pending)]_vars

\* The positions of log entries that are requests sent to the cluster.
JobRequests(log) == {i \in 1..Len(log) : log[i].ev = "req" /\ log[i].kind = "job"}

\* C8: in submitRun any failure before the job submission aborts the run, the
\* only failure swallowed being a conflict (409) of the PVC create: after any
\* other failure no training-job create request is sent.
C8_FailureAbortsRun ==
  \A p \in UserProcs :
    \A i \in JobRequests(procs[p].log) :
      \A j \in 1..(i - 1) :
        procs[p].log[j].ev = "threw"
          => (procs[p].log[j].kind = "pvc" /\ procs[p].log[j].status = 409)

\* The fields of an operation other than its log.
Visible(q) ==
  [pc |-> q.pc, op |-> q.op, stage |-> q.stage, opts |-> q.opts,
   manifest |-> q.manifest, res |-> q.res, bearer |-> q.bearer]

\* C9: when the PVC create of submitRun (autoPVCforPip) is answered with a
\* conflict, the run is not failed by it and goes on exactly as after a PVC
\* create that succeeded: the job manifest is built and cached in
\* lastManifest, and with a valid session the job create is sent.
C9_PvcConflictProceeds ==
  [][\A p \in UserProcs :
       (procs[p].op = "submitRun" /\ procs[p].stage = "pvc" /\ K8sAnswer(p, 409))
         => LET manifest == BuildPyTorchJob(procs[p].opts, ArtifactName(procs[p].opts.name))
                created == After([procs[p] EXCEPT !.bearer = ""], "pvc", lastManifest)
                sent == procs'[p].log[Len(procs'[p].log)]
            IN /\ procs[p].opts.autoPVCforPip
               /\ lastManifest' = manifest
               /\ procs'[p].res # "apiError"
               /\ Visible(procs'[p]) = Visible(created.proc)
               /\ lastManifest' = created.lm
               /\ EnsureValidSession = "ok" =>
                    /\ procs'[p].pc = "k8sWait"
                    /\ procs'[p].stage = "job"
                    /\ procs'[p].manifest = manifest
                    /\ sent.ev = "req" /\ sent.kind = "job"
                    /\ sent.name = procs[p].opts.name]_vars

\* C9, witness: the job create is on its way after a PVC create that was
\* answered with a conflict.
C9_Witness ==
  \E p \in UserProcs :
    /\ procs[p].pc = "k8sWait" /\ procs[p].stage = "job"
    /\ \E j \in 1..Len(procs[p].log) : procs[p].log[j] = Response("pvc", 409)
    /\ lastManifest = procs[p].manifest

\* What submitRun has attempted, in order: its steps on disk, and each
\* request to the cluster, sent or thrown before it was sent.
RECURSIVE Attempts(_)
Attempts(log) ==
  IF log = <<>> THEN <<>>
  ELSE LET e == Head(log) IN
       (IF e.ev \in {"local", "req"} \/ (e.ev = "threw" /\ e.status = 0)
        THEN <<e.kind>> ELSE <<>>) \o Attempts(Tail(log))

IsPrefix(s, u) == Len(s) <= Len(u) /\ s = SubSeq(u, 1, Len(s))

\* C10: submitRun packages, encodes, creates the ConfigMap <job>-artifact,
\* attempts the PVC create only if autoPVCforPip, then builds the manifest,
\* caches it and submits it; the job create is never sent before the
\* ConfigMap create has succeeded, and the job mounts that ConfigMap.
C10_SubmitRunOrder ==
  \A p \in UserProcs :
    procs[p].op = "submitRun" =>
      LET log == procs[p].log
          o == procs[p].opts
      IN /\ IsPrefix(Attempts(log),
                     <<"package", "encode", "cm">> \o
                     (IF o.autoPVCforPip THEN <<"pvc">> ELSE <<>>) \o <<"job">>)
         /\ \A i \in 1..Len(log) :
              (log[i].ev = "req" /\ log[i].kind = "cm")
                => log[i].name = o.name \o <<"-artifact">>
         /\ \A i \in JobRequests(log) :
              /\ \E j \in 1..(i - 1) :
                   /\ log[j].ev = "resp" /\ log[j].kind = "cm" /\ IsOk(log[j].status)
                   /\ \E k \in 1..(j - 1) :
                        log[k].ev = "req" /\ log[k].kind = "cm" /\ log[k].name = log[i].ref
              /\ log[i].name = o.name
              /\ log[i].ref = o.name \o <<"-artifact">>
              /\ lastManifest = procs[p].manifest
              /\ lastManifest.volumes[1].ref = log[i].ref

\* C10, witness: with autoPVCforPip the job create is on its way after the
\* ConfigMap and the PVC were created.
C10_Witness ==
  \E p \in UserProcs :
    /\ procs[p].pc = "k8sWait" /\ procs[p].stage = "job"
    /\ procs[p].opts.autoPVCforPip
    /\ \E j \in 1..Len(procs[p].log) : procs[p].log[j] = Response("pvc", 200)
    /\ JobRequests(procs[p].log) # {}

\* The create request of operation q for the job manifest m is in flight.
JobInFlight(q, m) == q.pc = "k8sWait" /\ q.stage = "job" /\ q.manifest = m

\* C11: the last-manifest cache, when not empty, holds the manifest most
\* recently submitted to the cluster as a training job: whenever the cache
\* is overwritten, its new content is a manifest whose create request goes
\* out in that step, or one whose create request is answered in that step.
C11_CacheHoldsLastSubmitted ==
  [][lastManifest' # lastManifest =>
       \E p \in UserProcs :
         \/ JobInFlight(procs'[p], lastManifest')
         \/ JobInFlight(procs[p], lastManifest')]_vars

\* C12: a successful restartLastRun() over a cached manifest named N submits
\* and caches a copy of it whose name is N, '-restart-' and exactly four
\* digits and whose metadata has none of resourceVersion, uid,
\* creationTimestamp; the rest of the manifest is that of the cached one.
C12_RestartManifest ==
  [][\A p \in UserProcs :
       (procs[p].op = "restart" /\ K8sAnswer(p, 200))
         => LET old == lastManifest
                new == lastManifest'
                n == Len(old.name)
                sent == procs[p].log[Len(procs[p].log)]
            IN /\ procs'[p].res = "ok"
               /\ new = procs[p].manifest
               /\ sent.ev = "req" /\ sent.kind = "job" /\ sent.name = new.name
               /\ Len(new.name) = n + 5
               /\ SubSeq(new.name, 1, n) = old.name
               /\ new.name[n + 1] = "-restart-"
               /\ \A i \in (n + 2)..(n + 5) :
                    new.name[i] \in {"0", "1", "2", "3", "4", "5", "6", "7", "8", "9"}
               /\ new.meta \cap {"resourceVersion", "uid", "creationTimestamp"} = {}
               /\ new.meta = old.meta \ {"resourceVersion", "uid", "creationTimestamp"}
               /\ [new EXCEPT !.name = old.name, !.meta = old.meta] = old]_vars

\* C12, witness: a restart has succeeded over a cached manifest that had the
\* cluster's metadata; the cache now holds the renamed, stripped copy.
C12_Witness ==
  \E p \in UserProcs :
    /\ procs[p].op = "restart" /\ procs[p].res = "ok"
    /\ RestartCount(lastManifest.name) = 1
    /\ SubSeq(lastManifest.name, 1, 2) = <<"ptjob-123", "-restart-">>
    /\ lastManifest.meta = {"labels"}

\* C13: restartLastRun() with no manifest cached fails with an error, sends
\* no request to the cluster and leaves the cache empty.
C13_RestartWithoutManifest ==
  [][\A p \in UserProcs :
       (RestartBegin(p) /\ lastManifest = NoManifest)
         => /\ procs'[p].pc = "idle"
            /\ procs'[p].res = "noManifest"
            /\ procs'[p].log = <<>>
            /\ \A q \in Procs : procs'[q].pc \in {"k8sWait", "refreshWait"} => procs'[q] = procs[q]
            /\ lastManifest' = NoManifest
            /\ UNCHANGED authVars]_vars

\* C13, witness: a restart was refused and the cache is empty.
C13_Witness ==
  \E p \in UserProcs :
    /\ procs[p].op = "restart" /\ procs[p].res = "noManifest"
    /\ lastManifest = NoManifest

\* C14: a request to the cluster is sent only after ensureValidSession() has
\* returned, none is sent when it fails, and every request that is sent
\* carries `Bearer <accessToken>` with the access token of the session that
\* exists when it is sent.
C14_BearerOfCurrentSession ==
  [][\A p \in UserProcs :
       /\ (ListBegin(p) /\ EnsureValidSession \notin {"ok", "refresh"})
            => (procs'[p].pc = "idle" /\ procs'[p].res = EnsureValidSession)
       /\ (procs'[p].pc = "k8sWait" /\ procs[p].pc # "k8sWait")
            => (session'.exists /\ procs'[p].bearer = session'.accessToken)]_vars

\* C15: for every response of the cluster, a status outside 2xx makes the
\* call fail with an error that carries the status and the body; a 204
\* yields an empty result; every other success returns the body parsed as
\* JSON, except on the pod-log path, which returns the body as text.
C15_ResponseHandling ==
  (call.fn = "response" /\ call.done) =>
    LET out == call.out
        empty == (out.value = <<"json", "{}">> \/ out.value = <<"text", "">>)
    IN /\ (call.status < 200 \/ call.status > 299) =>
            (out.threw /\ out.status = call.status /\ out.body = call.body)
       /\ (call.status >= 200 /\ call.status <= 299) => ~out.threw
       /\ call.status = 204 => empty
       /\ (call.status \in {200, 201} /\ ~call.raw) => out.value = <<"json", call.body>>
       /\ (call.status \in {200, 201} /\ call.raw) => out.value = <<"text", call.body>>

\* C15, witness: the pod-log path has returned text that is a log, not JSON.
C15_Witness ==
  /\ call.fn = "response" /\ call.done
  /\ call.raw /\ call.status = 200 /\ call.body = "epoch 1"
  /\ call.out.value = <<"text", "epoch 1">>

\* C16: ensureValidSession() with no session fails with the authentication
\* error "not logged in", makes no network call (neither a grant nor the
\* request that called it goes out) and leaves the absent session, the timer
\* and the secret store unchanged.
C16_NoSessionFails ==
  [][\A p \in UserProcs :
       (ListBegin(p) /\ ~session.exists)
         => /\ procs'[p].pc = "idle"
            /\ procs'[p].res = "notLoggedIn"
            /\ \A q \in Procs :
                 procs'[q].pc \in {"k8sWait", "refreshWait"} => procs'[q] = procs[q]
            /\ ~session'.exists
            /\ UNCHANGED <<session, timer, store>>]_vars

\* C16, witness: a request was refused for want of a session.
C16_Witness ==
  \E p \in UserProcs :
    /\ procs[p].op = "list" /\ procs[p].pc = "idle" /\ procs[p].res = "notLoggedIn"
    /\ ~session.exists

C18_RefreshKeepsToken ==
  [][\A p \in Procs :
       (RefreshGranted(p) /\ procs'[p].pc = "ss_access")
         => /\ session'.exists
            /\ session'.accessToken = "a2"
            /\ session'.expiresAt > now
            /\ session'.refreshToken # "r2" => session'.refreshToken = procs[p].grant]_vars

\* C19: every session that is created, by login, by refresh or by the
\* restore of initialize(), has its expiresAt strictly in the future at the
\* moment it is created, whatever the token response and the stored expiry.
C19_ExpiresInFuture ==
  [][(session'.exists /\ session' # session) => session'.expiresAt > now']_vars

\* C20: whenever a session exists its accessToken is a non-empty string,
\* whatever 2xx token response the identity provider returns.
C20_AccessTokenNonEmpty ==
  session.exists => session.accessToken # ""

\* C21: initialize() makes no network call (no operation waits for an
\* answer when it has returned) and does not touch the store; after it a
\* session exists if and only if the store held an access token (a
\* non-empty text under kflow.accessToken), and then a refresh timer is
\* armed; otherwise there is neither a session nor a timer.
C21_InitializeRestores ==
  [][Activate =>
       LET held == ACCESS_TOKEN_KEY \in DOMAIN store /\ store[ACCESS_TOKEN_KEY] # ""
       IN /\ session'.exists <=> held
          /\ held => (session'.accessToken = store[ACCESS_TOKEN_KEY] /\ timer'.pending)
          /\ ~held => (session' = NoSession /\ ~timer'.pending)
          /\ \A p \in Procs : procs'[p].pc = "idle"
          /\ store' = store]_vars

\* C21, witness: a reload has restored a session and armed the timer (no
\* operation has begun since), the store holding an access token.
C21_Witness ==
  /\ \A p \in Procs : procs[p] = IdleProc
  /\ session.exists /\ timer.pending
  /\ ACCESS_TOKEN_KEY \in DOMAIN store /\ session.accessToken = store[ACCESS_TOKEN_KEY]

\* The text s without its blanks and without one slash at its end.
Core(s) ==
  LET u == SelectSeq(s, LAMBDA x : x # " ") IN
  IF u # <<>> /\ u[Len(u)] = "/" THEN SubSeq(u, 1, Len(u) - 1) ELSE u

\* The text s, blanks around it aside, starts with http:// or https://
\* (letter case aside, as in every URL).
StartsWithHttp(s) ==
  \E i \in 1..Len(s) :
    /\ s[i] \in {"http://", "https://", "HTTPS://"}
    /\ \A j \in 1..(i - 1) : s[j] = " "

\* C22: for every combination of settings the token endpoint is resolved by
\* priority.  A non-empty override decides alone: if it starts with http://
\* or https:// the endpoint is made of the override's text only, nothing of
\* the realm or the base URL and nothing appended; if not, the call fails
\* with the configuration error and no token request is sent.  Without an
\* override, a realm that is a URL gives <realm>/protocol/openid-connect/token;
\* otherwise the endpoint is
\* <base-url>/realms/<realm or "kubeflow">/protocol/openid-connect/token.
C22_EndpointPriority ==
  (call.fn = "endpoint" /\ call.done) =>
    LET out == call.out
        suffix == <<"/protocol/openid-connect/token">>
    IN /\ (call.tokenUrl # <<>> /\ StartsWithHttp(call.tokenUrl)) =>
            /\ ~out.threw
            /\ out.value # <<>>
            /\ \A k \in 1..Len(out.value) :
                 \E i \in 1..Len(call.tokenUrl) : out.value[k] = call.tokenUrl[i]
            /\ call.requests = <<out.value>>
       /\ (call.tokenUrl # <<>> /\ ~StartsWithHttp(call.tokenUrl)) =>
            /\ out.threw
            /\ out.value = <<"Invalid kflow.keycloak.tokenUrl">>
            /\ call.requests = <<>>
       /\ (call.tokenUrl = <<>> /\ StartsWithHttp(call.realm)) =>
            /\ ~out.threw
            /\ out.value = Core(call.realm) \o suffix
            /\ call.requests = <<out.value>>
       /\ (call.tokenUrl = <<>> /\ ~StartsWithHttp(call.realm)) =>
            /\ ~out.threw
            /\ out.value = Core(call.url) \o <<"/realms/">> \o
                 (IF Core(call.realm) = <<>> THEN <<"kubeflow">> ELSE Core(call.realm)) \o
                 suffix
            /\ call.requests = <<out.value>>

\* C22, witness: an override and a realm that is a URL are both set, and the
\* endpoint is the override.
C22_Witness ==
  /\ call.fn = "endpoint" /\ call.done
  /\ call.tokenUrl = <<"https://", "kc.example.com/token">>
  /\ call.realm = <<"https://", "kc.example.com/realms/ml">>
  /\ call.out = [threw |-> FALSE, value |-> <<"https://", "kc.example.com/token">>]

\* C23 as stated: for every override that starts with http:// or https://,
\* the resolved token endpoint equals the override character for character.
C23_OverrideVerbatim ==
  (/\ call.fn = "endpoint" /\ call.done
   /\ call.tokenUrl # <<>> /\ call.tokenUrl[1] \in {"http://", "https://"})
    => (~call.out.threw /\ call.out.value = call.tokenUrl)

\* C23, amended: for every override that starts with http:// or https://,
\* the resolved token endpoint is the override without the white space
\* around it and then without one slash at its end, and otherwise character
\* for character the override.
C23_OverrideNormalised ==
  (/\ call.fn = "endpoint" /\ call.done
   /\ call.tokenUrl # <<>> /\ call.tokenUrl[1] \in {"http://", "https://"})
    => LET o == call.tokenUrl
           n == Len(o)
           m == CHOOSE k \in 0..n :
                  /\ \A j \in (k + 1)..n : o[j] = " "
                  /\ (k > 0 => o[k] # " ")
           kept == IF m > 0 /\ o[m] = "/" THEN m - 1 ELSE m
       IN /\ ~call.out.threw
          /\ call.out.value = SubSeq(o, 1, kept)

\* C23, witness: an override ending in two slashes has lost one of them.
C23_Witness ==
  /\ call.fn = "endpoint" /\ call.done
  /\ call.tokenUrl = <<"https://", "kc.example.com/token", "/", "/">>
  /\ call.out.value = <<"https://", "kc.example.com/token", "/">>

\* C24: when the user dismisses a prompt of loginInteractive,
\* runFromActivePythonFile or runFromTemplate, the operation returns there,
\* without an exception and without side effects: nothing is sent, no
\* archive or cluster resource is created, and the session, the secret
\* store, the timer and the last-manifest cache are unchanged.
C24_DismissedPromptAborts ==
  [][\A p \in UserProcs :
       (PromptDismissed(p) /\ procs[p].op \in {"login", "run", "template"})
         => /\ procs'[p].pc = "idle"
            /\ procs'[p].res = "returned"
            /\ procs'[p].log = <<>>
            /\ UNCHANGED <<session, timer, store, lastManifest>>]_vars

\* The archive that the package step of an operation wrote is on disk: the
\* log holds the steps of the operation on disk, and a file stays until a
\* step removes it.
ArchiveOnDisk(log) ==
  \E i \in 1..Len(log) :
    /\ log[i] = LocalStep("package")
    /\ \A j \in (i + 1)..Len(log) : ~(log[j].ev = "local" /\ log[j].kind = "unlink")

\* C25: the archive of a run is on disk until the ConfigMap upload has
\* completed, and is discarded after the upload: when submitRun returns
\* successfully (its job create is answered with success) the archive of
\* that run is no longer on disk.
C25_ArchiveDiscarded ==
  [][\A p \in UserProcs :
       procs[p].op = "submitRun" =>
         /\ (procs[p].stage = "cm" /\ K8sAnswer(p, 200)) => ArchiveOnDisk(procs[p].log)
         /\ (procs[p].stage = "job" /\ K8sAnswer(p, 200)) => ~ArchiveOnDisk(procs[p].log)]_vars

\* The positions of log entries that are pod-log requests sent to the cluster.
LogRequests(log) == {i \in 1..Len(log) : log[i].ev = "req" /\ log[i].kind = "logs"}

\* C26: streamJobLogs for a job whose pod list is empty fails with the
\* not-found error and makes no pod-log request.  When pods are listed and
\* the selection is dismissed, the first pod listed is used and, the session
\* being valid, exactly one log request goes out, for the first container
\* of that pod and its last 200 lines; no operation ever makes more than
\* one log request.
C26_StreamLogs ==
  [][\A p \in UserProcs :
       /\ (procs[p].op = "logs" /\ PodsAnswer(p, 200, <<>>))
            => /\ procs'[p].pc = "idle"
               /\ procs'[p].res = "noPods"
               /\ LogRequests(procs[p].log) = {}
       /\ (procs[p].op = "logs" /\ PromptDismissed(p) /\ EnsureValidSession = "ok")
            => LET first == procs[p].items[1]
                   log == procs'[p].log
                   sent == log[Len(log)]
               IN /\ procs'[p].pc = "k8sWait" /\ procs'[p].stage = "logs"
                  /\ sent.ev = "req" /\ sent.kind = "logs"
                  /\ sent.name = <<first.name>>
                  /\ sent.ref = <<"follow=false", "tailLines=200",
                                  "container=" \o first.containers[1]>>
                  /\ Cardinality(LogRequests(log)) = 1
       /\ Cardinality(LogRequests(procs'[p].log)) <= 1]_vars

\* C26, witness: two pods were listed, the worker first; the quick pick was
\* dismissed (pickedPod is a pod of the list, not an item of the quick pick)
\* and the log request for the worker is on its way.
C26_Witness ==
  \E p \in UserProcs :
    /\ procs[p].op = "logs" /\ procs[p].pc = "k8sWait" /\ procs[p].stage = "logs"
    /\ Len(procs[p].items) = 2
    /\ procs[p].picked = [label |-> Undefined, name |-> "ptjob-1-worker-0"]
    /\ procs[p].log[Len(procs[p].log)].ref =
         <<"follow=false", "tailLines=200", "container=worker">>

\* C27: the lines written after the header are the fetched lines, one for
\* one and in order: a line with ERROR or Traceback in it is written with
\* '[ERROR] ' before it, otherwise a line with WARN in it with '[WARN] '
\* before it, every other line as it is; the line itself always follows the
\* tag unchanged, and no line is added, dropped or moved.
C27_LogAnnotation ==
  (call.fn = "logs" /\ call.done) =>
    LET written == Tail(call.out)
        errors == {"ERROR: CUDA out of memory", "Traceback (most recent call last):",
                   "WARNING: deprecated, ERROR ignored"}
        warnings == {"WARN: slow dataloader"}
    IN /\ Len(written) = Len(call.lines)
       /\ \A i \in 1..Len(call.lines) :
            LET line == call.lines[i] IN
            /\ written[i] = (IF line \in errors THEN "[ERROR] " \o line
                             ELSE IF line \in warnings THEN "[WARN] " \o line
                             ELSE line)
            /\ SubSeq(written[i], Len(written[i]) - Len(line) + 1, Len(written[i])) = line

\* C27, witness: a warning that mentions ERROR, followed by an empty line,
\* was written as an error and an empty line.
C27_Witness ==
  /\ call.fn = "logs" /\ call.done
  /\ call.logs = "WARNING: deprecated, ERROR ignored\n"
  /\ call.out = <<"[Kubeflow] Logs for job=ptjob-1, pod=ptjob-1-master-0",
                  "[ERROR] WARNING: deprecated, ERROR ignored", "">>

\* The texts of parts with sep between them.
RECURSIVE Joined(_, _)
Joined(parts, sep) ==
  IF parts = <<>> THEN ""
  ELSE IF Len(parts) = 1 THEN parts[1]
  ELSE Joined(SubSeq(parts, 1, Len(parts) - 1), sep) \o sep \o parts[Len(parts)]

\* C28: for every JobOptions the command of the training job is /bin/sh -c
\* with, joined by ' && ' and in this order: 'apt-get update && apt-get
\* install -y <apt list>' only if apt is not empty, 'pip install <pip list>'
\* only if pip is not empty, 'python <scriptPath>'; the lists keep their
\* order.  pip [a, b] and apt [] give 'pip install a b && python /w/s.py',
\* apt [libgdal-dev] and pip [] give 'apt-get update && apt-get install -y
\* libgdal-dev && python /w/s.py'.
C28_StartupCommand ==
  (call.fn = "command" /\ call.done) =>
    LET o == call.options
        cmd == call.out.command[3]
        parts ==
          (IF o.apt # <<>>
           THEN <<"apt-get update && apt-get install -y " \o Joined(o.apt, " ")>>
           ELSE <<>>) \o
          (IF o.pip # <<>> THEN <<"pip install " \o Joined(o.pip, " ")>> ELSE <<>>) \o
          <<"python " \o o.scriptPath>>
    IN /\ call.out.command = <<"/bin/sh", "-c", cmd>>
       /\ cmd = Joined(parts, " && ")
       /\ (o.pip = <<"a", "b">> /\ o.apt = <<>>)
            => cmd = "pip install a b && python /w/s.py"
       /\ (o.pip = <<>> /\ o.apt = <<"libgdal-dev">>)
            => cmd = "apt-get update && apt-get install -y libgdal-dev && python /w/s.py"
       /\ (o.pip = <<>> /\ o.apt = <<>>) => cmd = "python /w/s.py"

\* C28, witness: both lists are set, each in an order that is not the
\* alphabetical one.
C28_Witness ==
  /\ call.fn = "command" /\ call.done
  /\ call.options.pip = <<"b", "a">> /\ call.options.apt = <<"libgdal-dev", "a">>
  /\ call.out.command[3] =
       "apt-get update && apt-get install -y libgdal-dev a && pip install b a && python /w/s.py"

\* The volumes and mounts of a manifest m of the given name.
VolumesNamed(m, name) == {i \in 1..Len(m.volumes) : m.volumes[i].name = name}
MountsNamed(m, name) == {i \in 1..Len(m.volumeMounts) : m.volumeMounts[i].name = name}

\* Every volumeMount of m names a volume declared in m.
MountsDeclared(m) ==
  \A i \in 1..Len(m.volumeMounts) : VolumesNamed(m, m.volumeMounts[i].name) # {}

\* C29: the manifest of a training job mounts the artifact ConfigMap at
\* /workspace, has the pip-cache volume and its mount exactly if
\* autoPVCforPip, every volumeMount names a volume of the same manifest, and
\* the claim of the pip-cache volume is the PVC that submitRun tried to
\* create (the create was tried before the manifest was built, and every
\* PVC create sent names the claim).
C29_ManifestVolumes ==
  /\ \A p \in UserProcs :
       (procs[p].op = "submitRun" /\ procs[p].manifest # NoManifest) =>
         LET m == procs[p].manifest
             o == procs[p].opts
             log == procs[p].log
         IN /\ \E i \in MountsNamed(m, "job-code") :
                 m.volumeMounts[i].mountPath = "/workspace"
            /\ \E i \in VolumesNamed(m, "job-code") :
                 /\ m.volumes[i].source = "configMap"
                 /\ m.volumes[i].ref = o.name \o <<"-artifact">>
            /\ (VolumesNamed(m, "pip-cache") # {}) <=> o.autoPVCforPip
            /\ (MountsNamed(m, "pip-cache") # {}) <=> o.autoPVCforPip
            /\ MountsDeclared(m)
            /\ \A i \in VolumesNamed(m, "pip-cache") :
                 /\ m.volumes[i].source = "persistentVolumeClaim"
                 /\ \E j \in 1..Len(log) :
                      log[j].ev \in {"req", "threw"} /\ log[j].kind = "pvc"
                 /\ \A j \in 1..Len(log) :
                      (log[j].ev = "req" /\ log[j].kind = "pvc")
                        => log[j].name = m.volumes[i].ref
  /\ lastManifest # NoManifest =>
       /\ MountsDeclared(lastManifest)
       /\ (VolumesNamed(lastManifest, "pip-cache") # {})
            <=> (MountsNamed(lastManifest, "pip-cache") # {})

\* C29, witness: a manifest with the pip-cache volume is on its way to the
\* cluster after the PVC create was tried.
C29_Witness ==
  \E p \in UserProcs :
    /\ procs[p].op = "submitRun" /\ procs[p].pc = "k8sWait" /\ procs[p].stage = "job"
    /\ procs[p].opts.autoPVCforPip
    /\ VolumesNamed(procs[p].manifest, "pip-cache") # {}
    /\ \E j \in 1..Len(procs[p].log) :
         procs[p].log[j].ev = "req" /\ procs[p].log[j].kind = "pvc"

\* A template supplies a value: the field is there and is not the empty text.
Supplied(v) == v # Absent /\ v # Str("")

\* The value v as a count, as a text, as a flag.
AsCount(v) == IF v.t = "string" THEN Num(ParseDigits(v.s)) ELSE v
AsText(v) == IF v.t = "number" THEN Str(Decimal(v.n)) ELSE v

\* The option `got` is the template's value if it supplies one, else dflt.
Merged(got, value, dflt) == got = IF Supplied(value) THEN value ELSE dflt

\* C30: runFromTemplate merges the template over the defaults: each of
\* namespace, image, gpu, cpu, memory, pip, apt and autoPVCforPip of the
\* options submitted is the template's value whenever the template supplies
\* one (gpu = 0 and autoPVCforPip = false included), and the default
\* otherwise.
C30_TemplateOverDefaults ==
  (call.fn = "template" /\ call.done) =>
    LET tpl == call.template
        s == call.settings
        o == call.out
    IN /\ Merged(o.namespace, tpl.namespace, s.defaultNamespace)
       /\ Merged(o.image, tpl.image, s.defaultImage)
       /\ (tpl.gpu.t # "string" \/ ParseDigits(tpl.gpu.s) # -1)
            => Merged(o.gpu, AsCount(tpl.gpu), Num(1))
       /\ Merged(o.cpu, AsText(tpl.cpu), Str("2"))
       /\ Merged(o.memory, IF Supplied(tpl.mem) THEN tpl.mem ELSE tpl.memory,
                 Str("16Gi"))
       /\ Merged(o.pip, tpl.pip, Arr(<<>>))
       /\ Merged(o.apt, tpl.apt, Arr(<<>>))
       /\ Merged(o.autoPVCforPip, tpl.autoPVCforPip, s.autoPVCforPip)

\* The credential values of a run.
SecretsOf(creds) == {creds.password, creds.accessToken, creds.refreshToken}

\* C31: the error text of a failed login, refresh or request to the cluster
\* holds no credential value (password, access token, refresh token), and
\* two runs that differ in those values only show the same text.
C31_NoCredentialInErrors ==
  (call.fn = "error" /\ call.done) =>
    /\ call.out[1] = call.out[2]
    /\ \A i \in 1..2 : \A secret \in SecretsOf(call.creds[i]) :
         ~Includes(call.out[i], secret)

\* C31, witness: two runs with no credential in common were refused a login
\* and show the status and the endpoint.
C31_Witness ==
  /\ call.fn = "error" /\ call.done /\ call.kind = "login"
  /\ SecretsOf(call.creds[1]) \cap SecretsOf(call.creds[2]) = {}
  /\ Includes(call.out[1], "Authentication failed (401) at https://kf.example.com/realms/")

\* C32: once signOut() has run the session stays absent until the next
\* login: the answer to a refresh_token grant that was in flight when the
\* session was signed out (it finds no session) does not create a session
\* and writes nothing to the secret store; the timer is armed by setSession
\* only, so it is not re-armed either.
C32_SignedOutUntilLogin ==
  [][\A p \in Procs :
       (RefreshGranted(p) /\ ~session.exists)
         => (~session'.exists /\ store' = store /\ timer' = timer)]_vars

\* A setSession() is between two of its writes; a signOut() is at its await.
InSetSession(q) == q.pc \in {"ss_access", "ss_refresh", "ss_expiry"}
InSignOut(q) == q.pc = "so_wait"

\* C33: when a signOut() and a setSession() that ran interleaved have both
\* finished and the in-memory session is absent, none of the three persisted
\* keys is left in the secret store.
C33_NothingLeftAfterSignOut ==
  [][\A p \in Procs :
       ((SetSessionEnd(p) \/ SignOutEnd(p))
        /\ \A q \in Procs : ~InSetSession(procs'[q]) /\ ~InSignOut(procs'[q]))
         => (~session'.exists => store' = EmptyStore)]_vars

\* The three persisted keys hold the fields of session s.
Persisted(st, s) ==
  /\ DOMAIN st = {ACCESS_TOKEN_KEY, REFRESH_TOKEN_KEY, EXPIRES_AT_KEY}
  /\ st[ACCESS_TOKEN_KEY] = s.accessToken
  /\ st[REFRESH_TOKEN_KEY] = s.refreshToken
  /\ st[EXPIRES_AT_KEY] = NumberToString(s.expiresAt)

\* C34: when setSession() executions that ran interleaved, each with a
\* refresh token, have all finished, the three persisted keys come from one
\* session, the one in memory: never the access token of one session with
\* the refresh token or the expiry of another.
C34_StoreOfOneSession ==
  [][\A p \in Procs :
       (/\ SetSessionEnd(p)
        /\ \A q \in Procs : ~InSetSession(procs'[q]) /\ ~InSignOut(procs'[q])
        /\ Truthy(procs[p].lsess.refreshToken)
        /\ session'.exists /\ Truthy(session'.refreshToken))
         => Persisted(store', session')]_vars

\* C35: at most one refresh timer is pending in every reachable state, and
\* it is the one the session manager holds: arming a timer cancels the one
\* armed before, so that no two timers can both fire.
C35_OneTimerPending ==
  /\ Cardinality(timeouts) <= 1
  /\ \A x \in timeouts : timer.pending /\ timer.id = x.id /\ timer.due = x.due

\* C35, witness: a timer is pending that was armed after the one of the
\* login: a refresh has replaced the session and armed it.
C35_Witness ==
  /\ Cardinality(timeouts) = 1
  /\ session.exists /\ session.accessToken = "a2"
  /\ \A p \in Procs : procs[p].pc = "idle"

\* The loginInteractive() of p ends in an error: the token endpoint has
\* rejected the grant, or resolveTokenEndpoint has thrown.
LoginFails(p) ==
  /\ procs[p].op = "login" /\ procs[p].pc # "idle"
  /\ procs'[p].pc = "idle" /\ procs'[p].res \in {"loginFailed", "invalidTokenUrl"}

\* C36: a loginInteractive() that fails, by a non-2xx answer of the token
\* endpoint or by a malformed endpoint override, leaves the session, the
\* refresh timer and the three persisted keys as they were before the call.
C36_FailedLoginChangesNothing ==
  [][\A p \in UserProcs :
       (LoginFails(p) /\ procs[p].before # <<>>)
         => <<session', timer', timeouts', store'>> = procs[p].before]_vars

\* C36, witness: a login was refused while a session existed, with its
\* timer pending and its three keys stored.
C36_Witness ==
  \E p \in UserProcs :
    /\ procs[p].op = "login" /\ procs[p].pc = "idle" /\ procs[p].res = "loginFailed"
    /\ session.exists /\ timer.pending /\ timeouts # {}
    /\ Persisted(store, session)

\* Operation p takes a step.
Steps(p) == procs'[p] # procs[p]

\* The restartLastRun() of p returns the new name: its create request was
\* answered with a 2xx status.
RestartSucceeds(p) ==
  /\ procs[p].op = "restart" /\ procs[p].pc = "k8sWait"
  /\ procs'[p].pc = "idle" /\ procs'[p].res = "ok"

\* C37: a restartLastRun() whose resubmission fails, in ensureValidSession
\* or at the create request, leaves the cached manifest as it was, name and
\* metadata: no step of a restart but its successful last one changes it,
\* and a restart that follows takes its name from that manifest again.
C37_FailedRestartKeepsCache ==
  [][\A p \in UserProcs :
       /\ (Steps(p) /\ (procs[p].op = "restart" \/ procs'[p].op = "restart")
           /\ ~RestartSucceeds(p))
            => lastManifest' = lastManifest
       /\ (RestartBegin(p) /\ procs'[p].manifest # NoManifest)
            => /\ IsPrefix(OldName(lastManifest), procs'[p].manifest.name)
               /\ RestartCount(procs'[p].manifest.name)
                    = RestartCount(lastManifest.name) + 1]_vars

\* C37, witness: the create request of a restart was refused by the cluster
\* and the cache holds the manifest of before, with the metadata the cluster
\* had set on it.
C37_Witness ==
  \E p \in UserProcs :
    /\ procs[p].op = "restart" /\ procs[p].pc = "idle" /\ procs[p].res = "apiError"
    /\ lastManifest \in CachedManifests

\* The text pieces '-restart-dddd' may consist of.
RestartSuffixes ==
  {<<"-restart-">> \o d : d \in [1..4 -> {DigitChar(i) : i \in 0..9}]}

\* The name consists of `base` and k suffixes '-restart-dddd'.
RECURSIVE Restarted(_, _, _)
Restarted(name, base, k) ==
  IF k = 0 THEN name = base
  ELSE /\ Len(name) >= 5
       /\ SubSeq(name, Len(name) - 4, Len(name)) \in RestartSuffixes
       /\ Restarted(SubSeq(name, 1, Len(name) - 5), base, k - 1)

\* C38: after a submitRun of a job named N and k successful restartLastRun
\* calls in a row the cached manifest is named N with k suffixes
\* '-restart-dddd': submitRun caches the name N, each successful restart
\* caches the name cached before it with one more suffix, and nothing else
\* changes the cache.
C38_RestartNamesAccumulate ==
  [][\A p \in UserProcs :
       /\ RestartSucceeds(p)
            => /\ lastManifest # NoManifest /\ lastManifest' # NoManifest
               /\ Restarted(lastManifest'.name, lastManifest.name, 1)
               /\ Len(lastManifest'.name) > Len(lastManifest.name)
               /\ \A k \in 0..MaxRestarts :
                    Restarted(lastManifest.name, <<"ptjob-1">>, k)
                      => Restarted(lastManifest'.name, <<"ptjob-1">>, k + 1)
       /\ (lastManifest' # lastManifest /\ ~RestartSucceeds(p))
            => /\ procs[p].op = "submitRun"
               /\ lastManifest'.name = procs[p].opts.name
               /\ Restarted(lastManifest'.name, <<"ptjob-1">>, 0)]_vars

\* C38, witness: the cache holds the manifest of a second restart in a row
\* of a job that submitRun had submitted as ptjob-1.
C38_Witness ==
  /\ lastManifest # NoManifest
  /\ Restarted(lastManifest.name, <<"ptjob-1">>, 2)
  /\ \E p \in UserProcs :
       procs[p].op = "restart" /\ procs[p].pc = "idle" /\ procs[p].res = "ok"

\* A timeout is due: the clock has reached the time it was armed for.
TimerDue == \E x \in timeouts : now >= x.due

\* The session has a refresh ahead of it: its timer is pending, or it will
\* be armed by the setSession() in progress, or the timer's grant is in
\* flight.
RefreshAhead ==
  \/ timer.pending /\ timeouts # {}
  \/ \E p \in Procs : InSetSession(procs[p])
  \/ procs[TimerProc].pc = "refreshWait"

\* C39: with a timer that fires when due and a token endpoint that answers,
\* every session is in the end replaced by a refreshed session or signed
\* out.  Every session has a refresh ahead of it; once no setSession() is
\* in progress its timer is due no later than 5 minutes before expiresAt, or
\* 10 s from now; a timer that is due does not stay due, and it ceases to
\* be due only by firing, by a sign-out, by being armed again at the end of
\* a setSession(), or by a reload;
\* and the grant of the timer ends in a new session or in a sign-out (a
\* reload of the window begins anew, with the timer of initialize).
C39_SessionsAreRefreshed ==
  /\ [](session.exists => RefreshAhead)
  /\ []((session.exists /\ timer.pending /\ \A p \in Procs : ~InSetSession(procs[p]))
          => timer.due <= Max(session.expiresAt - SAFETY_WINDOW_MS, now + MIN_DELAY_MS))
  /\ TimerDue ~> ~TimerDue
  /\ [][(TimerDue /\ ~TimerDue')
         => \/ TimerFire
            \/ ~session'.exists
            \/ \E p \in Procs : SetSessionEnd(p)
            \/ Activate]_vars
  /\ [](procs[TimerProc].pc = "refreshWait"
          => <>(procs[TimerProc].pc \in {"ss_access", "so_wait", "idle"}))
  /\ [](procs[TimerProc].pc = "so_wait" => <>(procs[TimerProc].pc = "idle"))

\* C39, witness: the timer has fired for a session five minutes before its
\* expiry, and the session was replaced by the refreshed one.
C39_Witness ==
  /\ procs[TimerProc].op = "timer" /\ procs[TimerProc].pc = "idle"
  /\ procs[TimerProc].res = "ok"
  /\ session.exists /\ session.accessToken = "a2"
  /\ timer.pending

====
